---------------------------- MODULE Spec2Model ----------------------------
(***************************************************************************)
(* A model of vortexkey (0verv0ltage/vortexkey): the Hamming(31,26)        *)
(* SEC-DED codec of error_correction.rs, the pixel codec, header codec,    *)
(* parameter validation and stream assembler of converter.rs.              *)
(*                                                                         *)
(* Representation of machine words.  TLC integers are 32-bit signed, so a  *)
(* u32 or u64 that uses its top bits is held as a bit vector: a function   *)
(* from 0..w-1 (bit 0 the least significant) to {0,1}.  Values that the    *)
(* code keeps below 2^31 (bytes, 26-bit data words, masks, counters) are   *)
(* plain naturals.                                                         *)
(***************************************************************************)
EXTENDS Integers, Sequences, FiniteSets, TLC

VARIABLES
    \* hamming_31_26_encode / hamming_31_26_decode on one code word
    hamTask,        \* which function this run exercises: "word" or "stream"
    wordData,       \* the 26 data bits handed to hamming_31_26_encode
    wordFlips,      \* bit positions of the code word flipped before decoding
    wordResult,     \* what hamming_31_26_decode returned: [data, status]
    \* encode_with_hamming_31_26 / decode_with_hamming_31_26 on a byte stream
    streamInput,    \* the bytes handed to encode_with_hamming_31_26
    streamFlips,    \* [word, bits]: the code word of the stream hit, and where
    streamEncoded,  \* Result of encode_with_hamming_31_26
    streamDecoded,  \* Result of decode_with_hamming_31_26 on the (hit) stream
    \* Converter::new
    newArgs,        \* the arguments handed to Converter::new
    newResult,      \* what Converter::new returned (or that it panicked)
    \* the build profile: "debug" checks arithmetic overflow (a shift by the
    \* full width of the type panics), "release" does not (the shift amount
    \* wraps modulo the width)
    build,
    \* data_to_frame / frame_to_data
    pixConv,        \* the Converter
    pixData,        \* the bytes handed to data_to_frame
    pixFrame,       \* Result of data_to_frame
    pixDecoded,     \* Result of frame_to_data on that frame
    \* data_block_header / read_data_header
    hdrData,        \* the payload the header is built for
    hdrDamage,      \* which bits of the 144 header bytes get flipped on the way
    hdrBytes,       \* the 144 bytes handed to read_data_header
    hdrRead,        \* Result of read_data_header
    \* deconstruct_file, combine_frames, split_video, reconstruct_file
    fileConv,       \* the Converter
    fileSource,     \* the bytes of the source file
    fileReadable,   \* deconstruct_file's path names a file that can be read
    filePc,         \* how far the run has come
    filePlan,       \* deconstruct_file: file_data_with_correction
    fileWritten,    \* deconstruct_file: the number of frames saved so far
    fileStore,      \* the frame folder: frame name |-> image
    fileVideo,      \* the video file: its frames in order
    fileDest,       \* the destination file of reconstruct_file
    fileResult,     \* Result of the operation that ended last
    fileDamage,     \* what the video step did to the byte stream carried by the frames
    fileOverwrite,  \* the overwrite argument of the call of reconstruct_file
    fileRecovered   \* reconstruct_file's locals after decode_with_hamming_31_26:
                    \* [found_header_frame, checked_header, read_from_video,
                    \*  decoded_ok, decoded_len, report]

hamVars == <<hamTask, wordData, wordFlips, wordResult,
             streamInput, streamFlips, streamEncoded, streamDecoded>>

newVars == <<newArgs, newResult>>

pixVars == <<pixConv, pixData, pixFrame, pixDecoded>>

hdrVars == <<hdrData, hdrDamage, hdrBytes, hdrRead>>

fileVars == <<fileConv, fileSource, fileReadable, filePc, filePlan, fileWritten, fileStore,
              fileVideo, fileDest, fileResult, fileDamage,
              fileOverwrite, fileRecovered>>

vars == <<hamVars, newVars, build, pixVars, hdrVars, fileVars>>

---------------------------------------------------------------------------
(* Machine arithmetic *)

\* x >> n and x << n on naturals that stay below 2^31
Shr(x, n) == x \div (2^n)
Shl(x, n) == x * (2^n)

\* TLC computes a value when something first reads it.  A loop below reads
\* its state after the first half of its range and before the second, so that
\* the state is computed in the order of the loop, step by step.
Computed(value) == value = value

\* the powers of two that fit a TLC integer
Pow2 == [i \in 0..30 |-> 2^i]

\* bit i of the natural x
BitOf(x, i) == (x \div Pow2[i]) % 2

RECURSIVE BitAnd(_, _)
\* x & y on naturals
BitAnd(x, y) ==
    IF x = 0 \/ y = 0 THEN 0
    ELSE (x % 2) * (y % 2) + 2 * BitAnd(x \div 2, y \div 2)

RECURSIVE BitOr(_, _)
\* x | y on naturals
BitOr(x, y) ==
    IF x = 0 THEN y
    ELSE IF y = 0 THEN x
    ELSE (IF x % 2 = 1 \/ y % 2 = 1 THEN 1 ELSE 0) + 2 * BitOr(x \div 2, y \div 2)

\* a w-bit machine word, all bits clear
ZeroWord(w) == [i \in 0..(w - 1) |-> 0]

\* the natural x (below 2^31) as a w-bit machine word: `x as uW`
ToWord(x, w) == [i \in 0..(w - 1) |-> IF i < 31 THEN BitOf(x, i) ELSE 0]

RECURSIVE FieldOf(_, _, _)
\* (word >> lo) truncated to its low len bits (len <= 30), as a natural
FieldOf(word, lo, len) ==
    IF len = 0 THEN 0
    ELSE (IF lo \in DOMAIN word THEN word[lo] ELSE 0) + 2 * FieldOf(word, lo + 1, len - 1)

\* (word << n) | x, for a natural x: bits shifted past the top are lost
ShlOrWord(word, n, x) ==
    [i \in DOMAIN word |->
        IF (i >= n /\ word[i - n] = 1) \/ (i <= 30 /\ BitOf(x, i) = 1) THEN 1 ELSE 0]

\* word ^ (1 << i) for every i in the set flips
XorBits(word, flips) ==
    [i \in DOMAIN word |-> IF i \in flips THEN 1 - word[i] ELSE word[i]]

\* u32::count_ones
count_ones(word) == Cardinality({i \in DOMAIN word : word[i] = 1})

\* u32::to_le_bytes and u32::from_le_bytes
to_le_bytes(word) == [k \in 1..4 |-> FieldOf(word, 8 * (k - 1), 8)]
from_le_bytes(bytes) == [i \in 0..31 |-> BitOf(bytes[(i \div 8) + 1], i % 8)]

---------------------------------------------------------------------------
(* constants.rs *)

HAMMING_DATA_POSITIONS_31_26 ==
    <<2, 4, 5, 6, 8, 9, 10, 11, 12, 13, 14, 16, 17, 18, 19, 20, 21, 22, 23, 24,
      25, 26, 27, 28, 29, 30>>
HAMMING_PARITY_POSITIONS_31_26 == <<1, 2, 4, 8, 16>>
HAMMING_DATA_BITS_31_26 == 26
BIT_MASK_26 == (2^26) - 1
HAMMING_CHUNK_BYTES_31_26 == 13
HAMMING_CHUNK_BYTES_TOAL_31_26 == 16
BYTES_U32 == 4
U8_BITS == 8

---------------------------------------------------------------------------
(* error_correction.rs: one code word *)

\* `(code_word_pos & p) != 0` for bit in 0..31: the bits that the k-th parity
\* position covers (tabulated once; the loops below walk the table)
ParityGroup ==
    [k \in 1..Len(HAMMING_PARITY_POSITIONS_31_26) |->
        {bit \in 0..30 : BitAnd(bit + 1, HAMMING_PARITY_POSITIONS_31_26[k]) # 0}]

\* the inner loop shared by the encoder and the decoder: the parity of the
\* bits of the 31-bit field that the k-th parity position covers
GroupParity(word, k) ==
    Cardinality({bit \in ParityGroup[k] : word[bit] = 1}) % 2

\* the data bits that `bit << offset` moves to code-word bit b
DataSource ==
    [b \in 0..31 |-> {i \in 0..(HAMMING_DATA_BITS_31_26 - 1) :
                          HAMMING_DATA_POSITIONS_31_26[i + 1] = b}]

\* "Place data bits into code_word"
PlaceDataBits(data_bits) ==
    [b \in 0..31 |-> IF \E i \in DataSource[b] : BitOf(data_bits, i) = 1 THEN 1 ELSE 0]

RECURSIVE ComputeParityBits(_, _)
\* "Compute parity bits": the loop over HAMMING_PARITY_POSITIONS_31_26, from
\* its k-th element on
ComputeParityBits(code_word, k) ==
    IF k > Len(HAMMING_PARITY_POSITIONS_31_26) THEN code_word
    ELSE LET p == HAMMING_PARITY_POSITIONS_31_26[k]
             parity == GroupParity(code_word, k)
         IN  ComputeParityBits(
                 [code_word EXCEPT ![p - 1] = IF parity = 1 THEN 1 ELSE @], k + 1)

hamming_31_26_encode(data_bits) ==
    LET masked == BitAnd(data_bits, BIT_MASK_26)
        code_word == ComputeParityBits(PlaceDataBits(masked), 1)
        overall_parity == count_ones(code_word) % 2
    IN  [code_word EXCEPT ![31] = IF overall_parity = 1 THEN 1 ELSE @]

\* "Calculate syndrome for Hamming code"
Syndrome(hamming_code) ==
    LET bitOfSyndrome(i) ==
            IF GroupParity(hamming_code, i + 1) # 0 THEN Pow2[i] ELSE 0
    IN  bitOfSyndrome(0) + bitOfSyndrome(1) + bitOfSyndrome(2)
        + bitOfSyndrome(3) + bitOfSyndrome(4)

\* "Extract data bits from corrected Hamming code"
RECURSIVE ExtractDataBits(_, _)
ExtractDataBits(corrected_hamming, i) ==
    IF i >= HAMMING_DATA_BITS_31_26 THEN 0
    ELSE corrected_hamming[HAMMING_DATA_POSITIONS_31_26[i + 1]] * Pow2[i]
         + ExtractDataBits(corrected_hamming, i + 1)

\* hamming_31_26_decode taking the syndrome for a 0-based bit index
hamming_31_26_decode_ZeroBasedSyndrome(code_word) ==
    LET hamming_code == [code_word EXCEPT ![31] = 0]
        original_parity == count_ones(code_word) % 2
        syndrome == Syndrome(hamming_code)
        outcome ==
            CASE syndrome = 0 /\ original_parity = 0 ->
                    [word |-> hamming_code, status |-> "NoError"]
              [] syndrome = 0 /\ original_parity # 0 ->
                    [word |-> hamming_code, status |-> "CorrectedSingle"]
              [] syndrome # 0 /\ original_parity # 0 ->
                    [word |-> XorBits(hamming_code, {syndrome}),
                     status |-> "CorrectedSingle"]
              [] syndrome # 0 /\ original_parity = 0 ->
                    [word |-> hamming_code, status |-> "Uncorrectable"]
    IN  [data |-> ExtractDataBits(outcome.word, 0), status |-> outcome.status]

\* hamming_31_26_decode without the overall parity: every non-zero syndrome
\* is taken for a single error and corrected
hamming_31_26_decode_NoOverallParity(code_word) ==
    LET hamming_code == [code_word EXCEPT ![31] = 0]
        original_parity == count_ones(code_word) % 2
        syndrome == Syndrome(hamming_code)
        outcome ==
            CASE syndrome = 0 /\ original_parity = 0 ->
                    [word |-> hamming_code, status |-> "NoError"]
              [] syndrome = 0 /\ original_parity # 0 ->
                    [word |-> hamming_code, status |-> "CorrectedSingle"]
              [] syndrome # 0 ->
                    [word |-> XorBits(hamming_code, {syndrome - 1}),
                     status |-> "CorrectedSingle"]
    IN  [data |-> ExtractDataBits(outcome.word, 0), status |-> outcome.status]

hamming_31_26_decode(code_word) ==
    LET hamming_code == [code_word EXCEPT ![31] = 0]     \* code_word & BIT_MASK_31
        original_parity == count_ones(code_word) % 2
        syndrome == Syndrome(hamming_code)
        outcome ==
            CASE syndrome = 0 /\ original_parity = 0 ->
                    [word |-> hamming_code, status |-> "NoError"]
              [] syndrome = 0 /\ original_parity # 0 ->
                    [word |-> hamming_code, status |-> "CorrectedSingle"]
              [] syndrome # 0 /\ original_parity # 0 ->
                    [word |-> XorBits(hamming_code, {syndrome - 1}),
                     status |-> "CorrectedSingle"]
              [] syndrome # 0 /\ original_parity = 0 ->
                    [word |-> hamming_code, status |-> "Uncorrectable"]
    IN  [data |-> ExtractDataBits(outcome.word, 0), status |-> outcome.status]

---------------------------------------------------------------------------
(* error_correction.rs: byte streams *)

\* anyhow::Result: Ok(val), or Err (bail!) with the message's cause
Ok(v) == [ok |-> TRUE, val |-> v, err |-> "none", panic |-> FALSE]
Err(cause) == [ok |-> FALSE, val |-> <<>>, err |-> cause, panic |-> FALSE]
\* the thread panicked: no value and no error value is returned
Panic(cause) == [ok |-> FALSE, val |-> <<>>, err |-> cause, panic |-> TRUE]

RECURSIVE EncodeDrain(_)
\* encode_with_hamming_31_26: `while bit_counter >= HAMMING_DATA_BITS_31_26`
EncodeDrain(st) ==
    IF st.bit_counter >= HAMMING_DATA_BITS_31_26
    THEN LET data_bits == FieldOf(st.bit_buffer,
                                  st.bit_counter - HAMMING_DATA_BITS_31_26,
                                  HAMMING_DATA_BITS_31_26)
             code == hamming_31_26_encode(data_bits)
         IN  EncodeDrain([bit_buffer |-> st.bit_buffer,
                          bit_counter |-> st.bit_counter - HAMMING_DATA_BITS_31_26,
                          encoded |-> st.encoded \o to_le_bytes(code)])
    ELSE st

\* encode_with_hamming_31_26: the body of `for byte in data` for the k-th byte
EncodeByte(data, k, st) ==
    EncodeDrain([bit_buffer |-> ShlOrWord(st.bit_buffer, U8_BITS, data[k]),
                 bit_counter |-> st.bit_counter + U8_BITS,
                 encoded |-> st.encoded])

RECURSIVE EncodeBytes(_, _, _, _)
\* encode_with_hamming_31_26: `for byte in data`, the bytes lo..hi in their
\* order (the first half of the range, then the second)
EncodeBytes(data, lo, hi, st) ==
    IF lo > hi THEN st
    ELSE IF lo = hi THEN EncodeByte(data, lo, st)
    ELSE LET mid == (lo + hi) \div 2
             first == EncodeBytes(data, lo, mid, st)
         IN  IF Computed(first) THEN EncodeBytes(data, mid + 1, hi, first) ELSE first

encode_with_hamming_31_26(data) ==
    IF Len(data) % HAMMING_CHUNK_BYTES_31_26 # 0
    THEN Err("hamming_encode_length")
    ELSE Ok(EncodeBytes(data, 1, Len(data),
                        [bit_buffer |-> ZeroWord(64), bit_counter |-> 0,
                         encoded |-> <<>>]).encoded)

RECURSIVE DecodeDrain_LowBits(_)
\* DecodeDrain taking the byte from the bottom of the buffer, not from its top
DecodeDrain_LowBits(st) ==
    IF st.bit_counter >= U8_BITS
    THEN LET byte == FieldOf(st.bit_buffer, 0, U8_BITS)
         IN  DecodeDrain_LowBits([st EXCEPT !.output = Append(@, byte),
                                            !.bit_counter = @ - U8_BITS])
    ELSE st

RECURSIVE DecodeDrain(_)
\* decode_with_hamming_31_26: `while bit_counter >= u8::BITS`
DecodeDrain(st) ==
    IF st.bit_counter >= U8_BITS
    THEN LET byte == FieldOf(st.bit_buffer, st.bit_counter - U8_BITS, U8_BITS)
         IN  DecodeDrain([st EXCEPT !.output = Append(@, byte),
                                    !.bit_counter = @ - U8_BITS])
    ELSE st

\* DecodeChunk that does not count the errors
DecodeChunk_NoCount(data, c, st) ==
         LET k == (c - 1) * BYTES_U32 + 1
             chunk_bytes == SubSeq(data, k, k + BYTES_U32 - 1)
             decoded == hamming_31_26_decode(from_le_bytes(chunk_bytes))
             buffered == [st EXCEPT
                 !.bit_counter = @ + HAMMING_DATA_BITS_31_26,
                 !.bit_buffer = ShlOrWord(@, HAMMING_DATA_BITS_31_26, decoded.data)]
         IN  DecodeDrain(buffered)

\* decode_with_hamming_31_26: the body of `for chunk in
\* data.chunks_exact(BYTES_U32)` for the c-th chunk, c from 1
DecodeChunk(data, c, st) ==
         LET k == (c - 1) * BYTES_U32 + 1
             chunk_bytes == SubSeq(data, k, k + BYTES_U32 - 1)
             decoded == hamming_31_26_decode(from_le_bytes(chunk_bytes))
             counted == [st EXCEPT
                 !.corrected_errors =
                     IF decoded.status = "CorrectedSingle" THEN @ + 1 ELSE @,
                 !.uncorrected_errors =
                     IF decoded.status = "Uncorrectable" THEN @ + 1 ELSE @]
             buffered == [counted EXCEPT
                 !.bit_counter = @ + HAMMING_DATA_BITS_31_26,
                 !.bit_buffer = ShlOrWord(@, HAMMING_DATA_BITS_31_26, decoded.data)]
         IN  DecodeDrain(buffered)

RECURSIVE DecodeChunks(_, _, _, _)
\* decode_with_hamming_31_26: `for chunk in data.chunks_exact(BYTES_U32)`, the
\* chunks lo..hi in their order (the first half of the range, then the second)
DecodeChunks(data, lo, hi, st) ==
    IF lo > hi THEN st
    ELSE IF lo = hi THEN DecodeChunk(data, lo, st)
    ELSE LET mid == (lo + hi) \div 2
             first == DecodeChunks(data, lo, mid, st)
         IN  IF Computed(first) THEN DecodeChunks(data, mid + 1, hi, first) ELSE first

\* decode_with_hamming_31_26 asking for whole code words only, not for whole
\* blocks of four code words
decode_with_hamming_31_26_WordLength(data) ==
    IF Len(data) % BYTES_U32 # 0
    THEN [ok |-> FALSE, val |-> <<>>, err |-> "hamming_decode_length",
          report |-> [corrected_errors |-> 0, uncorrected_errors |-> 0],
          bits_left |-> 0]
    ELSE LET st == DecodeChunks(data, 1, Len(data) \div BYTES_U32,
                       [bit_buffer |-> ZeroWord(64), bit_counter |-> 0,
                        output |-> <<>>, corrected_errors |-> 0,
                        uncorrected_errors |-> 0])
         IN  [ok |-> TRUE, val |-> st.output, err |-> "none",
              report |-> [corrected_errors |-> st.corrected_errors,
                          uncorrected_errors |-> st.uncorrected_errors],
              bits_left |-> st.bit_counter]

decode_with_hamming_31_26(data) ==
    IF Len(data) % HAMMING_CHUNK_BYTES_TOAL_31_26 # 0
    THEN [ok |-> FALSE, val |-> <<>>, err |-> "hamming_decode_length",
          report |-> [corrected_errors |-> 0, uncorrected_errors |-> 0],
          bits_left |-> 0]
    ELSE LET st == DecodeChunks(data, 1, Len(data) \div BYTES_U32,
                       [bit_buffer |-> ZeroWord(64), bit_counter |-> 0,
                        output |-> <<>>, corrected_errors |-> 0,
                        uncorrected_errors |-> 0])
         IN  [ok |-> TRUE, val |-> st.output, err |-> "none",
              report |-> [corrected_errors |-> st.corrected_errors,
                          uncorrected_errors |-> st.uncorrected_errors],
              bits_left |-> st.bit_counter]

---------------------------------------------------------------------------
(* Inputs of the Hamming specification *)

\* the largest 26-bit word of the run 0..MaxSmallData handed to the encoder
MaxSmallData == 3
\* the longest stream handed to the stream encoder, in 13-byte blocks
MaxBlocks == 2

\* 26-bit words: every single data bit, the extremes, the two alternating
\* patterns and a run of small values
DataSamples ==
    {2^k : k \in 0..(HAMMING_DATA_BITS_31_26 - 1)}
        \cup {0, BIT_MASK_26, 44739242, 22369621}
        \cup 0..MaxSmallData

\* the code-word bit positions, including the overall parity bit 31
BitPositions == 0..31

\* no flip, every single flip, every pair of flips (distinct positions)
FlipSets ==
    {{}} \cup {{i} : i \in BitPositions}
         \cup {{i, j} : i, j \in BitPositions}

\* the flips tried inside a byte stream: none, every single one, and every
\* pair of neighbouring positions (31 and 0 count as neighbours)
StreamFlipSets ==
    {{}} \cup {{i} : i \in BitPositions}
         \cup {{i, (i + 1) % 32} : i \in BitPositions}

PatternKinds == {"zero", "count", "scramble"}

\* a byte stream of n bytes
Pattern(kind, n) ==
    [i \in 1..n |->
        CASE kind = "zero" -> 0
          [] kind = "count" -> (i - 1) % 256
          [] kind = "scramble" -> (i * 37 + 11 + 151 * (i \div 3)) % 256]

\* lengths on, just below and just above each block boundary
StreamLengths ==
    {n \in 0..(HAMMING_CHUNK_BYTES_31_26 * MaxBlocks + 1) :
        n % HAMMING_CHUNK_BYTES_31_26 \in {0, 1, HAMMING_CHUNK_BYTES_31_26 - 1}}

\* the bytes of `encoded` with the bits `flips` of its w-th code word flipped
FlipInStream(encoded, w, flips) ==
    IF flips = {} THEN encoded
    ELSE LET lo == BYTES_U32 * (w - 1)
             hit == to_le_bytes(XorBits(
                        from_le_bytes(SubSeq(encoded, lo + 1, lo + BYTES_U32)), flips))
         IN  [i \in 1..Len(encoded) |->
                 IF i > lo /\ i <= lo + BYTES_U32 THEN hit[i - lo] ELSE encoded[i]]

\* the results before the function under test has run
WordNotRun == [data |-> 0, status |-> "none"]
StreamNotRun ==
    [ok |-> FALSE, val |-> <<>>, err |-> "not_run",
     report |-> [corrected_errors |-> 0, uncorrected_errors |-> 0], bits_left |-> 0]

\* the number of code words encode_with_hamming_31_26 makes of n bytes
WordsOf(n) == (n \div HAMMING_CHUNK_BYTES_31_26) * BYTES_U32

\* A run draws its inputs: one data word and the flips of its code word, or
\* one byte stream and the flips of one of its code words (only a stream the
\* encoder accepts has code words to hit).
HamInit ==
    /\ wordResult = WordNotRun
    /\ streamEncoded = Err("not_run")
    /\ streamDecoded = StreamNotRun
    /\ \/ /\ hamTask = "word"
          /\ wordData \in DataSamples
          /\ wordFlips \in FlipSets
          /\ streamInput = <<>>
          /\ streamFlips = [word |-> 0, bits |-> {}]
       \/ /\ hamTask = "stream"
          /\ wordData = 0
          /\ wordFlips = {}
          /\ \E kind \in PatternKinds, n \in StreamLengths :
                /\ streamInput = Pattern(kind, n)
                /\ \/ streamFlips = [word |-> 0, bits |-> {}]
                   \/ /\ n % HAMMING_CHUNK_BYTES_31_26 = 0
                      /\ \E w \in 1..WordsOf(n), flips \in StreamFlipSets \ {{}} :
                            streamFlips = [word |-> w, bits |-> flips]

\* encode the data word, flip the chosen bits of the code word, decode it
DecodeWord ==
    /\ hamTask = "word"
    /\ wordResult = WordNotRun
    /\ wordResult' =
           hamming_31_26_decode(XorBits(hamming_31_26_encode(wordData), wordFlips))
    /\ UNCHANGED <<hamTask, wordData, wordFlips,
                   streamInput, streamFlips, streamEncoded, streamDecoded>>

\* encode the stream, flip the chosen bits of the chosen code word, decode it.
\* When the encoder refuses the input, the input itself goes to the decoder:
\* that is how a stream of a wrong length reaches it.
CodecStream ==
    LET enc == encode_with_hamming_31_26(streamInput)
    IN  /\ hamTask = "stream"
        /\ streamDecoded = StreamNotRun
        /\ streamEncoded' = enc
        /\ streamDecoded' =
               decode_with_hamming_31_26(
                   IF enc.ok
                   THEN FlipInStream(enc.val, streamFlips.word, streamFlips.bits)
                   ELSE streamInput)
        /\ UNCHANGED <<hamTask, wordData, wordFlips, wordResult,
                       streamInput, streamFlips>>

HamNext == DecodeWord \/ CodecStream

\* the Hamming variables of a run that exercises something else
HamIdle ==
    /\ hamTask = "idle"
    /\ wordData = 0
    /\ wordFlips = {}
    /\ wordResult = WordNotRun
    /\ streamInput = <<>>
    /\ streamFlips = [word |-> 0, bits |-> {}]
    /\ streamEncoded = Err("not_run")
    /\ streamDecoded = StreamNotRun

---------------------------------------------------------------------------
(* converter.rs: Converter::new *)

COLOR_CHANNELS == 3
DOWNSAMPLE_SCALER == 2
MIN_FPS == 1

\* `color_bits.iter().any(|&x| x > u8::BITS)`
ColorBitsCheck(color_bits) ==
    IF \E c \in 1..COLOR_CHANNELS : color_bits[c] > U8_BITS
    THEN Err("color_bits_above_one_byte")
    ELSE Ok(<<>>)

\* FpsCheck computing the remainder before it looks at the range
FpsCheck_ModuloFirst(data_fps, video_fps) ==
    IF data_fps = 0
    THEN Panic("remainder_by_zero")
    ELSE IF video_fps % data_fps # 0
    THEN Err("video_fps_not_multiple_of_data_fps")
    ELSE IF ~(data_fps >= MIN_FPS /\ data_fps <= video_fps)
    THEN Err("data_fps_out_of_range")
    ELSE Ok(<<>>)

\* `!(Self::MIN_FPS..=video_fps).contains(&data_fps)`, then
\* `video_fps % data_fps != 0`
FpsCheck(data_fps, video_fps) ==
    IF ~(data_fps >= MIN_FPS /\ data_fps <= video_fps)
    THEN Err("data_fps_out_of_range")
    ELSE IF video_fps % data_fps # 0
    THEN Err("video_fps_not_multiple_of_data_fps")
    ELSE Ok(<<>>)

\* DimensionCheck without the two comparisons against DOWNSAMPLE_SCALER
DimensionCheck_NoScaler(frame_dimensions, data_dimensions) ==
    IF data_dimensions[1] = 0
    THEN Panic("remainder_by_zero")
    ELSE IF frame_dimensions[1] % data_dimensions[1] # 0
    THEN Err("frame_width_not_multiple_of_data_width")
    ELSE IF data_dimensions[2] = 0
    THEN Panic("remainder_by_zero")
    ELSE IF frame_dimensions[2] % data_dimensions[2] # 0
    THEN Err("frame_height_not_multiple_of_data_height")
    ELSE Ok(<<>>)

\* the four checks of the frame dimensions against the data dimensions
\* ([width, height], 1-based here).  `%` by a zero data dimension panics.
DimensionCheck(frame_dimensions, data_dimensions) ==
    IF data_dimensions[1] = 0
    THEN Panic("remainder_by_zero")
    ELSE IF frame_dimensions[1] % data_dimensions[1] # 0
    THEN Err("frame_width_not_multiple_of_data_width")
    ELSE IF data_dimensions[2] = 0
    THEN Panic("remainder_by_zero")
    ELSE IF frame_dimensions[2] % data_dimensions[2] # 0
    THEN Err("frame_height_not_multiple_of_data_height")
    ELSE IF frame_dimensions[1] < DOWNSAMPLE_SCALER * data_dimensions[1]
    THEN Err("frame_width_below_scaled_data_width")
    ELSE IF frame_dimensions[2] < DOWNSAMPLE_SCALER * data_dimensions[2]
    THEN Err("frame_height_below_scaled_data_height")
    ELSE Ok(<<>>)

\* the derived fields and `Ok(Self { ... })`, or the bail! on a frame that
\* does not hold a whole number of bytes
DeriveConverter(color_bits, data_fps, video_fps, frame_dimensions, data_dimensions) ==
    LET total_bits == color_bits[1] + color_bits[2] + color_bits[3]
        frame_data_unit_count == data_dimensions[1] * data_dimensions[2]
        frame_data_bit_count == total_bits * frame_data_unit_count
    IN  IF frame_data_bit_count % U8_BITS # 0
        THEN Err("frame_not_whole_bytes")
        ELSE Ok([red_bits |-> color_bits[1],
                 red_mask |-> Shl(1, color_bits[1]) - 1,
                 green_bits |-> color_bits[2],
                 green_mask |-> Shl(1, color_bits[2]) - 1,
                 blue_bits |-> color_bits[3],
                 blue_mask |-> Shl(1, color_bits[3]) - 1,
                 total_bits |-> total_bits,
                 total_mask |-> Shl(1, total_bits) - 1,
                 data_fps |-> data_fps,
                 video_fps |-> video_fps,
                 data_height |-> data_dimensions[2],
                 data_width |-> data_dimensions[1],
                 frame_height |-> frame_dimensions[2],
                 frame_width |-> frame_dimensions[1],
                 frame_data_unit_count |-> frame_data_unit_count,
                 frame_data_byte_count |-> frame_data_bit_count \div U8_BITS])

\* Converter::new: the checks in the order of the code, the first failure
\* returned
Converter_new(color_bits, data_fps, video_fps, frame_dimensions, data_dimensions) ==
    LET bits == ColorBitsCheck(color_bits)
        fps == FpsCheck(data_fps, video_fps)
        dims == DimensionCheck(frame_dimensions, data_dimensions)
    IN  IF ~bits.ok THEN bits
        ELSE IF ~fps.ok THEN fps
        ELSE IF ~dims.ok THEN dims
        ELSE DeriveConverter(color_bits, data_fps, video_fps,
                             frame_dimensions, data_dimensions)

---------------------------------------------------------------------------
(* Inputs of the Converter::new specification *)

\* the largest channel bit count tried (u8::BITS is 8)
MaxBits == 9
\* frame rates 0..MaxSmallFps are tried, and those around the CLI's limit of 60
MaxSmallFps == 4
\* the largest frame width and height tried
MaxFrameDim == 6
\* the largest data width and height tried
MaxDataDim == 3

BitCounts == 0..MaxBits
FpsValues == 0..MaxSmallFps \cup {30, 59, 60, 61, 120}

\* a few good and bad values of each argument, combined with the full range
\* of each other argument
BitsCore == {<<8, 8, 8>>, <<1, 2, 1>>, <<1, 2, 0>>, <<9, 1, 1>>}
FpsCore == {<<1, 30>>, <<0, 30>>, <<2, 3>>, <<1, 61>>}
DimsCore ==
    {[frame |-> <<8, 4>>, data |-> <<4, 2>>],
     [frame |-> <<4, 6>>, data |-> <<2, 2>>],
     [frame |-> <<4, 4>>, data |-> <<4, 4>>],
     [frame |-> <<4, 4>>, data |-> <<0, 2>>]}

NewArgs(bits, fps, dims) ==
    [color_bits |-> bits, data_fps |-> fps[1], video_fps |-> fps[2],
     frame_dimensions |-> dims.frame, data_dimensions |-> dims.data]

NewInputs ==
    {NewArgs(<<r, g, b>>, fps, dims) :
        r \in BitCounts, g \in BitCounts, b \in BitCounts,
        fps \in FpsCore, dims \in DimsCore}
    \cup {NewArgs(bits, <<d, v>>, dims) :
        bits \in BitsCore, d \in FpsValues, v \in FpsValues, dims \in DimsCore}
    \cup {NewArgs(bits, fps, [frame |-> <<fw, fh>>, data |-> <<dw, dh>>]) :
        bits \in BitsCore, fps \in FpsCore,
        fw \in 0..MaxFrameDim, fh \in 0..MaxFrameDim,
        dw \in 0..MaxDataDim, dh \in 0..MaxDataDim}

NoArgs == NewArgs(<<0, 0, 0>>, <<0, 0>>, [frame |-> <<0, 0>>, data |-> <<0, 0>>])
NewNotRun == Err("not_run")

NewInit ==
    /\ newArgs \in NewInputs
    /\ newResult = NewNotRun

\* the call of Converter::new
New ==
    /\ newResult = NewNotRun
    /\ newResult' = Converter_new(newArgs.color_bits, newArgs.data_fps,
                                  newArgs.video_fps, newArgs.frame_dimensions,
                                  newArgs.data_dimensions)
    /\ UNCHANGED newArgs

NewIdle ==
    /\ newArgs = NoArgs
    /\ newResult = NewNotRun

---------------------------------------------------------------------------
(* converter.rs: the pixel codec *)

Builds == {"debug", "release"}

\* x << n and x >> n on a u8, n a u32: a shift by 8 or more overflows
ShlU8(x, n, profile) ==
    IF n >= U8_BITS
    THEN IF profile = "debug" THEN Panic("shift_left_overflow")
                              ELSE Ok(Shl(x, n % U8_BITS) % 256)
    ELSE Ok(Shl(x, n) % 256)
ShrU8(x, n, profile) ==
    IF n >= U8_BITS
    THEN IF profile = "debug" THEN Panic("shift_right_overflow")
                              ELSE Ok(Shr(x, n % U8_BITS))
    ELSE Ok(Shr(x, n))

\* EncodeChannel without the anchor bit below the data field
EncodeChannel_NoAnchor(field, bits, profile) ==
    ShlU8(field % 256, U8_BITS - bits, profile)

\* data_to_frame, one channel: the field moved to the top of the sample and,
\* for fewer than 8 bits, the bit just below it set
Anchored(shifted, bits) ==
    IF ~shifted.ok THEN shifted
    ELSE IF bits < 8
    THEN Ok(BitOr(shifted.val, Shl(1, U8_BITS - bits - 1)))
    ELSE shifted

EncodeChannel(field, bits, profile) ==
    Anchored(ShlU8(field % 256, U8_BITS - bits, profile), bits)

\* data_to_frame: the three samples of one data unit
\* UnitOf with the channels in the order blue, green, red
UnitOf_Reversed(red, green, blue) ==
    IF ~red.ok THEN red
    ELSE IF ~green.ok THEN green
    ELSE IF ~blue.ok THEN blue
    ELSE Ok(<<blue.val, green.val, red.val>>)

\* three channel Results as the Result for the unit: the first panic, if any
UnitOf(red, green, blue) ==
    IF ~red.ok THEN red
    ELSE IF ~green.ok THEN green
    ELSE IF ~blue.ok THEN blue
    ELSE Ok(<<red.val, green.val, blue.val>>)

EncodeUnit(conv, data_unit_bits, profile) ==
    UnitOf(EncodeChannel(
               BitAnd(Shr(data_unit_bits, conv.green_bits + conv.blue_bits),
                      conv.red_mask),
               conv.red_bits, profile),
           EncodeChannel(
               BitAnd(Shr(data_unit_bits, conv.blue_bits), conv.green_mask),
               conv.green_bits, profile),
           EncodeChannel(BitAnd(data_unit_bits, conv.blue_mask),
                         conv.blue_bits, profile))

\* data_to_frame: the end of the body of the while loop, the unit pushed
PushUnit(conv, st, unit) ==
    IF unit.ok
    THEN [st EXCEPT !.bit_count = @ - conv.total_bits,
                    !.encoded_data_units = @ \o unit.val]
    ELSE [st EXCEPT !.panic = unit.err]

RECURSIVE FrameDrain(_, _, _)
\* data_to_frame: `while bit_count >= self.total_bits`.  (With total_bits = 0
\* the loop would not end; the input assertion lets no byte in then.)
FrameDrain(conv, st, profile) ==
    IF st.panic = "none" /\ st.bit_count >= conv.total_bits
    THEN FrameDrain(conv,
             PushUnit(conv, st,
                 EncodeUnit(conv,
                     BitAnd(FieldOf(st.bit_buffer, st.bit_count - conv.total_bits,
                                    conv.total_bits),
                            conv.total_mask),
                     profile)),
             profile)
    ELSE st

\* data_to_frame: the body of `for &data_byte in data` for the k-th byte
FrameByte(conv, data, k, st, profile) ==
    IF st.panic # "none" THEN st
    ELSE FrameDrain(conv,
             [st EXCEPT !.bit_buffer = ShlOrWord(@, U8_BITS, data[k]),
                        !.bit_count = @ + U8_BITS],
             profile)

RECURSIVE FrameBytes(_, _, _, _, _, _)
\* data_to_frame: `for &data_byte in data`, the bytes lo..hi in their order
\* (the first half of the range, then the second)
FrameBytes(conv, data, lo, hi, st, profile) ==
    IF lo > hi THEN st
    ELSE IF lo = hi THEN FrameByte(conv, data, lo, st, profile)
    ELSE LET mid == (lo + hi) \div 2
             first == FrameBytes(conv, data, lo, mid, st, profile)
         IN  IF first.panic # "none" THEN first
             ELSE FrameBytes(conv, data, mid + 1, hi, first, profile)

\* data_to_frame: the output assertion and the return
FrameReturned(conv, st) ==
    IF st.panic # "none" THEN Panic(st.panic)
    ELSE IF Len(st.encoded_data_units) # conv.frame_data_unit_count * COLOR_CHANNELS
    THEN Panic("assert_output_length")
    ELSE Ok(st.encoded_data_units)

data_to_frame(conv, data, profile) ==
    IF Len(data) # conv.frame_data_byte_count
    THEN Panic("assert_input_length")
    ELSE FrameReturned(conv,
             FrameBytes(conv, data, 1, Len(data),
                 [bit_buffer |-> ZeroWord(32), bit_count |-> 0,
                  encoded_data_units |-> <<>>, panic |-> "none"],
                 profile))

\* frame_to_data: the bits of one data unit, from its three samples
\* frame_to_data: blue | (green << blue_bits) | (red << (blue_bits + green_bits))
UnitBits(conv, channels) ==
    IF ~channels.ok THEN channels
    ELSE Ok(BitOr(channels.val[3],
                  BitOr(Shl(channels.val[2], conv.blue_bits),
                        Shl(channels.val[1], conv.blue_bits + conv.green_bits))))

DecodeUnit(conv, data_unit, profile) ==
    UnitBits(conv,
        UnitOf(ShrU8(data_unit[1], U8_BITS - conv.red_bits, profile),
               ShrU8(data_unit[2], U8_BITS - conv.green_bits, profile),
               ShrU8(data_unit[3], U8_BITS - conv.blue_bits, profile)))

RECURSIVE DataDrain(_)
\* frame_to_data: `while bit_count >= u8::BITS`
DataDrain(st) ==
    IF st.bit_count >= U8_BITS
    THEN DataDrain([st EXCEPT
             !.decoded_bytes =
                 Append(@, FieldOf(st.bit_buffer, st.bit_count - U8_BITS, U8_BITS)),
             !.bit_count = @ - U8_BITS])
    ELSE st

\* frame_to_data: the body of `for data_unit in ..chunks_exact(3)` for the
\* u-th unit, u from 1
\* frame_to_data: the bits of a unit moved into the buffer, and the bytes out
PushBits(conv, st, unit) ==
    IF ~unit.ok THEN [st EXCEPT !.panic = unit.err]
    ELSE DataDrain([st EXCEPT
             !.bit_buffer = ShlOrWord(@, conv.total_bits, unit.val),
             !.bit_count = @ + conv.total_bits])

DataUnit(conv, frame_data_units, u, st, profile) ==
    IF st.panic # "none" THEN st
    ELSE PushBits(conv, st,
             DecodeUnit(conv,
                 <<frame_data_units[(u - 1) * COLOR_CHANNELS + 1],
                   frame_data_units[(u - 1) * COLOR_CHANNELS + 2],
                   frame_data_units[(u - 1) * COLOR_CHANNELS + 3]>>,
                 profile))

RECURSIVE DataUnits(_, _, _, _, _, _)
\* frame_to_data: `for data_unit in frame_data_units.chunks_exact(3)`, the
\* units lo..hi in their order (the first half of the range, then the second)
DataUnits(conv, frame_data_units, lo, hi, st, profile) ==
    IF lo > hi THEN st
    ELSE IF lo = hi THEN DataUnit(conv, frame_data_units, lo, st, profile)
    ELSE LET mid == (lo + hi) \div 2
             first == DataUnits(conv, frame_data_units, lo, mid, st, profile)
         IN  IF first.panic # "none" THEN first
             ELSE DataUnits(conv, frame_data_units, mid + 1, hi, first, profile)

\* frame_to_data: the output assertion and the return
DataReturned(conv, st) ==
    IF st.panic # "none" THEN Panic(st.panic)
    ELSE IF Len(st.decoded_bytes) # conv.frame_data_byte_count
    THEN Panic("assert_output_length")
    ELSE Ok(st.decoded_bytes)

frame_to_data(conv, frame_data_units, profile) ==
    IF Len(frame_data_units) # conv.frame_data_unit_count * COLOR_CHANNELS
    THEN Panic("assert_input_length")
    ELSE DataReturned(conv,
             DataUnits(conv, frame_data_units, 1,
                 conv.frame_data_unit_count,
                 [bit_buffer |-> ZeroWord(32), bit_count |-> 0,
                  decoded_bytes |-> <<>>, panic |-> "none"],
                 profile))

---------------------------------------------------------------------------
(* Inputs of the pixel codec specification *)

\* the data widths tried for the pixel codec, 1..MaxPixelWidth; the data
\* height is 8, so that every sum of bit counts fills whole bytes
MaxPixelWidth == 1

PixelPatternKinds == {"zero", "ones", "count", "scramble"}

PixelPattern(kind, n) ==
    [i \in 1..n |-> IF kind = "ones" THEN 255 ELSE Pattern(kind, n)[i]]

\* every Converter that Converter::new returns for the bit counts 0..8 and the
\* data dimensions tried
PixelConverters ==
    {r.val : r \in {c \in {Converter_new(<<rb, gb, bb>>, 1, 30,
                                         <<DOWNSAMPLE_SCALER * w, 16>>, <<w, 8>>) :
                              rb \in 0..U8_BITS, gb \in 0..U8_BITS,
                              bb \in 0..U8_BITS, w \in 1..MaxPixelWidth} : c.ok}}

NoConverter == DeriveConverter(<<0, 0, 0>>, 0, 0, <<0, 0>>, <<0, 0>>).val
PixNotRun == Err("not_run")

PixInit ==
    /\ build \in Builds
    /\ pixConv \in PixelConverters
    /\ \E kind \in PixelPatternKinds :
          pixData = PixelPattern(kind, pixConv.frame_data_byte_count)
    /\ pixFrame = PixNotRun
    /\ pixDecoded = PixNotRun

\* data_to_frame on the bytes and, when it returns, frame_to_data on its frame
PixelDecoded(frame) ==
    /\ pixFrame' = frame
    /\ pixDecoded' = IF frame.ok THEN frame_to_data(pixConv, frame.val, build)
                                 ELSE PixNotRun

PixelCodec ==
    /\ pixFrame = PixNotRun
    /\ PixelDecoded(data_to_frame(pixConv, pixData, build))
    /\ UNCHANGED <<build, pixConv, pixData>>

PixIdle ==
    /\ pixConv = NoConverter
    /\ pixData = <<>>
    /\ pixFrame = PixNotRun
    /\ pixDecoded = PixNotRun

---------------------------------------------------------------------------
(* converter.rs: the header of the first data frame *)

VERSION_CODE == <<68, 65, 67, 79, 0, 255, 0, 1>>
HEADER_LEN == 48

\* the largest length the model writes as a number; a length field read
\* back as anything larger is BeyondRange
BeyondRange == -1

\* u64::to_le_bytes of a length below 2^31, and u64::from_le_bytes converted to
\* usize (a 64-bit usize: the conversion cannot fail)
u64_to_le_bytes(n) == [k \in 1..8 |-> IF k <= 4 THEN Shr(n, 8 * (k - 1)) % 256 ELSE 0]
u64_from_le_bytes(bytes) ==
    IF bytes[4] < 128 /\ \A k \in 5..8 : bytes[k] = 0
    THEN bytes[1] + 256 * bytes[2] + 65536 * bytes[3] + 16777216 * bytes[4]
    ELSE BeyondRange

RECURSIVE Absorb(_, _, _, _)
\* the digest state after the bytes lo..hi of data
Absorb(data, lo, hi, acc) ==
    IF lo > hi THEN acc
    ELSE IF lo = hi THEN (acc * 31 + data[lo] + 1) % 16777213
    ELSE LET mid == (lo + hi) \div 2
             first == Absorb(data, lo, mid, acc)
         IN  IF Computed(first) THEN Absorb(data, mid + 1, hi, first) ELSE first

\* Sha256::digest: 32 bytes that depend on every byte of the data and on its
\* length.  The digest is of the sha2 crate and is modelled as a function that
\* tells apart the payloads the model uses, not computed.
Sha256(data) ==
    LET acc == Absorb(data, 1, Len(data), 5381 + Len(data))
    IN  [i \in 1..32 |->
            IF i <= 3 THEN Shr(acc, 8 * (i - 1)) % 256
            ELSE (acc + 17 * i + Shr(acc, i % 16)) % 256]

\* data_block_header taking the length after the padding to whole Hamming blocks
data_block_header_PaddedLength(data) ==
    LET padded_len == ((Len(data) + HAMMING_CHUNK_BYTES_31_26 - 1)
                          \div HAMMING_CHUNK_BYTES_31_26) * HAMMING_CHUNK_BYTES_31_26
        header == VERSION_CODE \o u64_to_le_bytes(padded_len) \o Sha256(data)
    IN  [i \in 1..(HEADER_LEN * 3) |-> header[((i - 1) % HEADER_LEN) + 1]]

data_block_header(data) ==
    LET header == VERSION_CODE \o u64_to_le_bytes(Len(data)) \o Sha256(data)
    IN  [i \in 1..(HEADER_LEN * 3) |-> header[((i - 1) % HEADER_LEN) + 1]]

\* the vote with the term (part1 & part3) left out
Majority_TwoTerms(a, b, c) == BitOr(BitAnd(a, b), BitAnd(b, c))

\* read_data_header: (part1[i] & part2[i]) | (part2[i] & part3[i]) | (part1[i] & part3[i])
Majority(a, b, c) == BitOr(BitOr(BitAnd(a, b), BitAnd(b, c)), BitAnd(a, c))

read_data_header(header) ==
    LET part1 == SubSeq(header, 1, HEADER_LEN)
        part2 == SubSeq(header, HEADER_LEN + 1, 2 * HEADER_LEN)
        part3 == SubSeq(header, 2 * HEADER_LEN + 1, 3 * HEADER_LEN)
        majority == [i \in 1..HEADER_LEN |-> Majority(part1[i], part2[i], part3[i])]
    IN  Ok([version_code |-> SubSeq(majority, 1, 8),
            data_len |-> u64_from_le_bytes(SubSeq(majority, 9, 16)),
            sha256_hash |-> SubSeq(majority, 17, 48)])

---------------------------------------------------------------------------
(* Inputs of the header specification *)

\* header payloads have 0..MaxHeaderPayload bytes; spread damage uses the
\* strides 1..MaxStride
MaxHeaderPayload == 1
MaxStride == 3

HeaderBits == HEADER_LEN * 8

\* Damage to the 144 bytes, bit p of them being bit (p % 8) of byte (p \div 8)
\* and bit (p % 384) of copy (p \div 384):
\*   "none"    nothing flipped
\*   "single"  bit a flipped
\*   "copy"    every bit of copy a flipped
\*   "spread"  every header bit q flipped in copy ((q * a + b) % 4) - 1, or in
\*             no copy when that is -1
\*   "cover"   every header bit q flipped in copy (q * a + b) % 3
\*   "double"  header bit a flipped in the two copies other than b
HeaderDamages ==
    {[kind |-> "none", a |-> 0, b |-> 0]}
    \cup {[kind |-> "single", a |-> p, b |-> 0] : p \in 0..(3 * HeaderBits - 1)}
    \cup {[kind |-> "copy", a |-> c, b |-> 0] : c \in 0..2}
    \cup {[kind |-> "spread", a |-> stride, b |-> shift] :
             stride \in 1..MaxStride, shift \in 0..3}
    \cup {[kind |-> "cover", a |-> stride, b |-> shift] :
             stride \in 1..MaxStride, shift \in 0..2}
    \cup {[kind |-> "double", a |-> q, b |-> c] :
             q \in 0..(HeaderBits - 1), c \in 0..2}

Flipped(damage, p) ==
    LET copy == p \div HeaderBits
        q == p % HeaderBits
    IN  CASE damage.kind = "none" -> FALSE
          [] damage.kind = "single" -> p = damage.a
          [] damage.kind = "copy" -> copy = damage.a
          [] damage.kind = "spread" -> ((q * damage.a + damage.b) % 4) = copy + 1
          [] damage.kind = "cover" -> ((q * damage.a + damage.b) % 3) = copy
          [] damage.kind = "double" -> q = damage.a /\ copy # damage.b

RECURSIVE DamageByte(_, _, _, _)
\* the byte x at index k (from 1) with its flipped bits inverted, from bit i up
DamageByte(damage, x, k, i) ==
    IF i = U8_BITS THEN 0
    ELSE LET bit == BitOf(x, i)
         IN  (IF Flipped(damage, 8 * (k - 1) + i) THEN 1 - bit ELSE bit) * Pow2[i]
             + DamageByte(damage, x, k, i + 1)

Damaged(bytes, damage) ==
    IF damage.kind = "none" THEN bytes
    ELSE [k \in 1..Len(bytes) |-> DamageByte(damage, bytes[k], k, 0)]

HdrNotRun == Err("not_run")

HdrInit ==
    /\ \E n \in 0..MaxHeaderPayload, kind \in {"count", "scramble"} :
          hdrData = Pattern(kind, n)
    /\ hdrDamage \in HeaderDamages
    /\ hdrBytes = <<>>
    /\ hdrRead = HdrNotRun

\* data_block_header, the damage on the way, read_data_header
HeaderCodec ==
    LET header == Damaged(data_block_header(hdrData), hdrDamage)
    IN  /\ hdrRead = HdrNotRun
        /\ hdrBytes' = header
        /\ hdrRead' = read_data_header(header)
        /\ UNCHANGED <<hdrData, hdrDamage>>

HdrIdle ==
    /\ hdrData = <<>>
    /\ hdrDamage = [kind |-> "none", a |-> 0, b |-> 0]
    /\ hdrBytes = <<>>
    /\ hdrRead = HdrNotRun

---------------------------------------------------------------------------
(* converter.rs, filesys.rs: frames and the frame folder *)

PREBUFFER_FRAMES == 3
POSTBUFFER_FRAMES == 3

Zeros(n) == [i \in 1..n |-> 0]

\* usize::div_ceil
div_ceil(a, b) == (a + b - 1) \div b

\* an RGB image: its samples row by row, three to a pixel
Image(width, height, samples) ==
    [width |-> width, height |-> height, samples |-> samples]

\* frame_path_combine numbering the frames from 1
frame_path_combine_FromOne(index) == <<"combine", index + 1>>

\* frame_path_combine(index) and the names split%09d.png of split_video; the
\* zero-padded decimal names sort as their numbers do
frame_path_combine(index) == <<"combine", index>>
frame_path_split(index) == <<"split", index>>

\* clear_framebuffer_folder: the folder deleted and created again
EmptyFolder == [name \in {} |-> Image(0, 0, <<>>)]

\* fs::write / ImageBuffer::save: the file replaced or created
WriteFile(folder, name, content) ==
    [n \in (DOMAIN folder) \cup {name} |-> IF n = name THEN content ELSE folder[n]]

RECURSIVE InOrder(_)
\* a finite set of numbers in increasing order
InOrder(S) ==
    IF S = {} THEN <<>>
    ELSE LET least == CHOOSE x \in S : \A y \in S : x <= y
         IN  <<least>> \o InOrder(S \ {least})

\* glob over the frames of one kind: their images in the order of their names
Glob(folder, kind) ==
    LET indices == InOrder({name[2] : name \in {n \in DOMAIN folder : n[1] = kind}})
    IN  [k \in 1..Len(indices) |-> folder[<<kind, indices[k]>>]]

\* save_data_frame: ImageBuffer::from_raw and save
Saved(conv, img_data) ==
    IF ~img_data.ok THEN img_data
    ELSE IF Len(img_data.val) < conv.data_width * conv.data_height * COLOR_CHANNELS
    THEN Err("no_image_buffer")
    ELSE Ok(Image(conv.data_width, conv.data_height, img_data.val))

save_data_frame(conv, frame_data, profile) ==
    IF Len(frame_data) > conv.frame_data_byte_count
    THEN Err("frame_data_too_long")
    ELSE Saved(conv,
             data_to_frame(conv,
                 frame_data \o Zeros(conv.frame_data_byte_count - Len(frame_data)),
                 profile))

save_buffer_frame(conv, profile) ==
    save_data_frame(conv, Zeros(conv.frame_data_byte_count), profile)

\* PaddedTo filling up with the bytes 1, 2, 3, ...
PaddedTo_Counting(bytes, n) ==
    bytes \o [i \in 1..(div_ceil(Len(bytes), n) * n - Len(bytes)) |-> i]

\* deconstruct_file: the header, then the Hamming code of the zero-padded file
\* Vec::resize(len.div_ceil(n) * n, 0)
PaddedTo(bytes, n) == bytes \o Zeros(div_ceil(Len(bytes), n) * n - Len(bytes))

\* deconstruct_file: splice(0..0, header)
Spliced(header, encoded) ==
    IF encoded.ok THEN Ok(header \o encoded.val) ELSE encoded

file_data_with_correction(file_data) ==
    Spliced(data_block_header(file_data),
            encode_with_hamming_31_26(PaddedTo(file_data, HAMMING_CHUNK_BYTES_31_26)))

\* slice::chunks(n).count() and the j-th chunk, j from 0
ChunkCount(bytes, n) == div_ceil(Len(bytes), n)
Chunk(bytes, n, j) ==
    SubSeq(bytes, j * n + 1,
           IF (j + 1) * n < Len(bytes) THEN (j + 1) * n ELSE Len(bytes))

\* deconstruct_file: the frame saved at an index, as a Result
FrameAt(conv, plan, index, profile) ==
    IF index >= PREBUFFER_FRAMES /\ conv.frame_data_byte_count = 0
    THEN Panic("chunk_size_zero")
    ELSE IF /\ index >= PREBUFFER_FRAMES
            /\ index < PREBUFFER_FRAMES + ChunkCount(plan, conv.frame_data_byte_count)
    THEN save_data_frame(conv,
             Chunk(plan, conv.frame_data_byte_count, index - PREBUFFER_FRAMES), profile)
    ELSE save_buffer_frame(conv, profile)

\* deconstruct_file: the number of frames it saves
FrameTotal(conv, plan) ==
    PREBUFFER_FRAMES + ChunkCount(plan, conv.frame_data_byte_count) + POSTBUFFER_FRAMES

\* the neighbour scaling of combine_frames and split_video, taken together and
\* without the video codec's loss: every pixel becomes a block of
\* DOWNSAMPLE_SCALER x DOWNSAMPLE_SCALER equal pixels
Upscaled(img) ==
    LET width == img.width * DOWNSAMPLE_SCALER
        height == img.height * DOWNSAMPLE_SCALER
    IN  Image(width, height,
            [k \in 1..(width * height * COLOR_CHANNELS) |->
                LET channel == (k - 1) % COLOR_CHANNELS
                    x == ((k - 1) \div COLOR_CHANNELS) % width
                    y == ((k - 1) \div COLOR_CHANNELS) \div width
                IN  img.samples[((y \div DOWNSAMPLE_SCALER) * img.width
                                 + (x \div DOWNSAMPLE_SCALER)) * COLOR_CHANNELS
                                + channel + 1]])

\* average_blocks: img.get_pixel(x, y)[channel]
get_pixel(img, x, y, channel) ==
    img.samples[(y * img.width + x) * COLOR_CHANNELS + channel + 1]

RECURSIVE BlockSum(_, _, _, _, _)
\* average_blocks: r_sum, g_sum or b_sum over the pixels of a block, from the
\* i-th pixel of the block on
BlockSum(img, bx, by, channel, i) ==
    IF i = DOWNSAMPLE_SCALER * DOWNSAMPLE_SCALER THEN 0
    ELSE get_pixel(img, bx * DOWNSAMPLE_SCALER + (i % DOWNSAMPLE_SCALER),
                   by * DOWNSAMPLE_SCALER + (i \div DOWNSAMPLE_SCALER), channel)
         + BlockSum(img, bx, by, channel, i + 1)

average_blocks(conv, img) ==
    IF img.width # conv.data_width * DOWNSAMPLE_SCALER THEN Err("image_width")
    ELSE IF img.height # conv.data_height * DOWNSAMPLE_SCALER THEN Err("image_height")
    ELSE Ok([k \in 1..(conv.data_width * conv.data_height * COLOR_CHANNELS) |->
                LET channel == (k - 1) % COLOR_CHANNELS
                    bx == ((k - 1) \div COLOR_CHANNELS) % conv.data_width
                    by == ((k - 1) \div COLOR_CHANNELS) \div conv.data_width
                    block_size == DOWNSAMPLE_SCALER * DOWNSAMPLE_SCALER
                IN  (BlockSum(img, bx, by, channel, 0) \div block_size) % 256])

---------------------------------------------------------------------------
(* converter.rs: reconstruct_file *)

NoHeader == [version_code |-> Zeros(8), data_len |-> 0, sha256_hash |-> Zeros(32)]

NoFile == [exists |-> FALSE, content |-> <<>>]
File(content) == [exists |-> TRUE, content |-> content]

\* reconstruct_file: the header frame found, its header read and the bytes
\* after the header kept
HeaderFrame(st, img_content, read) ==
    IF ~read.ok THEN [st EXCEPT !.err = read.err]
    ELSE [st EXCEPT
             !.found_header_frame = TRUE,
             !.checked_header = read.val,
             !.read_from_video =
                 @ \o SubSeq(img_content, HEADER_LEN * 3 + 1, Len(img_content))]

\* ScanContent applying the blank test to every frame, also behind the header
\* frame
ScanContent_BlankTestRepeated(st, img_content) ==
    IF ~img_content.ok
    THEN [st EXCEPT !.err = img_content.err, !.panic = TRUE]
    ELSE IF Len(img_content.val) < HEADER_LEN * 3
    THEN [st EXCEPT !.err = "slice_out_of_range", !.panic = TRUE]
    ELSE IF \A j \in 1..(HEADER_LEN * 3) : img_content.val[j] = 0
    THEN st
    ELSE IF st.found_header_frame
    THEN [st EXCEPT !.read_from_video = @ \o img_content.val]
    ELSE HeaderFrame(st, img_content.val,
             read_data_header(SubSeq(img_content.val, 1, HEADER_LEN * 3)))

\* reconstruct_file: the body of the loop once the frame is decoded
ScanContent(st, img_content) ==
    IF ~img_content.ok
    THEN [st EXCEPT !.err = img_content.err, !.panic = TRUE]
    ELSE IF st.found_header_frame
    THEN [st EXCEPT !.read_from_video = @ \o img_content.val]
    ELSE IF Len(img_content.val) < HEADER_LEN * 3
    THEN [st EXCEPT !.err = "slice_out_of_range", !.panic = TRUE]
    ELSE IF \A j \in 1..(HEADER_LEN * 3) : img_content.val[j] = 0
    THEN st
    ELSE HeaderFrame(st, img_content.val,
             read_data_header(SubSeq(img_content.val, 1, HEADER_LEN * 3)))

\* reconstruct_file: the body of the loop once the blocks are averaged
ScanAveraged(conv, st, averaged, profile) ==
    IF ~averaged.ok THEN [st EXCEPT !.err = averaged.err]
    ELSE ScanContent(st, frame_to_data(conv, averaged.val, profile))

RECURSIVE ScanFrames(_, _, _, _, _)
\* reconstruct_file: `for frame_path in glob(..)`, from the k-th frame on
ScanFrames(conv, frames, k, st, profile) ==
    IF k > Len(frames) \/ st.err # "none" THEN st
    ELSE ScanFrames(conv, frames, k + 1,
             ScanAveraged(conv, st, average_blocks(conv, frames[k]), profile),
             profile)

\* FileReport with the two counts exchanged
FileReport_CountsSwapped(report, hash_match) ==
    [corrected_errors |-> report.uncorrected_errors,
     uncorrected_errors |-> report.corrected_errors,
     hash_match |-> hash_match]

FileReport(report, hash_match) ==
    [corrected_errors |-> report.corrected_errors,
     uncorrected_errors |-> report.uncorrected_errors,
     hash_match |-> hash_match]

\* Written reporting a match without comparing the hashes
Written_HashNotCompared(checked_header, report, corrected_data) ==
    [result |-> Ok(FileReport(report, TRUE)),
     dest |-> File(corrected_data)]

\* reconstruct_file: the data hashed and written, the report returned
Written(checked_header, report, corrected_data) ==
    [result |-> Ok(FileReport(report,
                       Sha256(corrected_data) = checked_header.sha256_hash)),
     dest |-> File(corrected_data)]

\* Checked without the check for a length of zero
Checked_ZeroLengthUnchecked(checked_header, decoded, dest, overwrite) ==
    IF ~decoded.ok THEN [result |-> Err(decoded.err), dest |-> dest]
    ELSE IF checked_header.version_code # VERSION_CODE
    THEN [result |-> Err("version_code"), dest |-> dest]
    ELSE IF checked_header.data_len = BeyondRange
            \/ checked_header.data_len > Len(decoded.val)
    THEN [result |-> Err("read_less_data"), dest |-> dest]
    ELSE IF ~overwrite /\ dest.exists
    THEN [result |-> Err("output_exists"), dest |-> dest]
    ELSE Written(checked_header, decoded.report,
                 SubSeq(decoded.val, 1, checked_header.data_len))

\* Checked without the check of the destination
Checked_DestinationUnchecked(checked_header, decoded, dest, overwrite) ==
    IF ~decoded.ok THEN [result |-> Err(decoded.err), dest |-> dest]
    ELSE IF checked_header.version_code # VERSION_CODE
    THEN [result |-> Err("version_code"), dest |-> dest]
    ELSE IF checked_header.data_len = 0
    THEN [result |-> Err("data_len_zero"), dest |-> dest]
    ELSE IF checked_header.data_len = BeyondRange
            \/ checked_header.data_len > Len(decoded.val)
    THEN [result |-> Err("read_less_data"), dest |-> dest]
    ELSE Written(checked_header, decoded.report,
                 SubSeq(decoded.val, 1, checked_header.data_len))

\* reconstruct_file after decode_with_hamming_31_26: the checks of the header,
\* the resize, the check of the destination
Checked(checked_header, decoded, dest, overwrite) ==
    IF ~decoded.ok THEN [result |-> Err(decoded.err), dest |-> dest]
    ELSE IF checked_header.version_code # VERSION_CODE
    THEN [result |-> Err("version_code"), dest |-> dest]
    ELSE IF checked_header.data_len = 0
    THEN [result |-> Err("data_len_zero"), dest |-> dest]
    ELSE IF checked_header.data_len = BeyondRange
            \/ checked_header.data_len > Len(decoded.val)
    THEN [result |-> Err("read_less_data"), dest |-> dest]
    ELSE IF ~overwrite /\ dest.exists
    THEN [result |-> Err("output_exists"), dest |-> dest]
    ELSE Written(checked_header, decoded.report,
                 SubSeq(decoded.val, 1, checked_header.data_len))

StreamNotDecoded == Err("not_run")

\* reconstruct_file after the loop over the frames: read_from_video padded to
\* whole code words and decoded
Scanned(scan) ==
    [scan |-> scan,
     decoded |-> IF scan.err # "none" THEN StreamNotDecoded
                 ELSE decode_with_hamming_31_26(
                          PaddedTo(scan.read_from_video, HAMMING_CHUNK_BYTES_TOAL_31_26))]

\* reconstruct_file up to and with decode_with_hamming_31_26: the part that
\* looks neither at the destination nor at overwrite
Recovered(conv, folder, profile) ==
    Scanned(ScanFrames(conv, Glob(folder, "split"), 1,
                [read_from_video |-> <<>>, checked_header |-> NoHeader,
                 found_header_frame |-> FALSE, err |-> "none", panic |-> FALSE],
                profile))

\* reconstruct_file from there on
Finished(recovered, dest, overwrite) ==
    IF recovered.scan.err # "none"
    THEN [result |-> IF recovered.scan.panic THEN Panic(recovered.scan.err)
                     ELSE Err(recovered.scan.err),
          dest |-> dest]
    ELSE Checked(recovered.scan.checked_header, recovered.decoded, dest, overwrite)

\* reconstruct_file: its Result and the destination file it leaves
reconstruct_file(conv, folder, dest, overwrite, profile) ==
    Finished(Recovered(conv, folder, profile), dest, overwrite)

---------------------------------------------------------------------------
(* Inputs and actions of the file specification *)

\* source files have up to MaxFileBlocks Hamming blocks of 13 bytes, and one
\* byte more
MaxFileBlocks == 1

\* bit counts and data dimensions: frames of exactly 144 bytes, of more, of
\* fewer, and with a channel of no bits
FileConfigs ==
    {<<<<8, 8, 8>>, <<8, 6>>>>,
     <<<<3, 3, 2>>, <<12, 12>>>>,
     <<<<8, 8, 8>>, <<8, 7>>>>,
     <<<<1, 2, 1>>, <<8, 8>>>>,
     <<<<8, 0, 0>>, <<12, 12>>>>}

FileConverters ==
    {r.val : r \in {c \in {Converter_new(cfg[1], 1, 30,
                               <<DOWNSAMPLE_SCALER * cfg[2][1], DOWNSAMPLE_SCALER * cfg[2][2]>>,
                               cfg[2]) : cfg \in FileConfigs} : c.ok}}

FileLengths ==
    {n \in 0..(HAMMING_CHUNK_BYTES_31_26 * MaxFileBlocks + 1) :
        n % HAMMING_CHUNK_BYTES_31_26 \in {0, 1}}

FileNotRun == Err("not_run")

\* reconstruct_file has not run
NothingRecovered ==
    [found_header_frame |-> FALSE, checked_header |-> NoHeader, decoded_len |-> 0,
     read_from_video |-> <<>>, decoded_ok |-> FALSE,
     report |-> [corrected_errors |-> 0, uncorrected_errors |-> 0]]

\* the video step changed nothing
NoDamage == [kind |-> "none", w |-> 0, a |-> 0, b |-> 0]

\* bit counts (1,2,1) over 8 x 8 data units with the payload 0x00..0x3F
ScenarioOneConverter == Converter_new(<<1, 2, 1>>, 1, 30, <<16, 16>>, <<8, 8>>).val
ScenarioOnePayload == Pattern("count", 64)

FileInputs ==
    {<<conv, Pattern(kind, n)>> :
        conv \in FileConverters, n \in FileLengths, kind \in PatternKinds}
    \cup {<<ScenarioOneConverter, ScenarioOnePayload>>}

FileInit ==
    /\ build \in Builds
    /\ \E input \in FileInputs : fileConv = input[1] /\ fileSource = input[2]
    /\ fileReadable = TRUE
    /\ filePc = "start"
    /\ filePlan = <<>>
    /\ fileWritten = 0
    /\ fileStore = EmptyFolder
    /\ fileVideo = <<>>
    /\ fileDest = NoFile
    /\ fileResult = FileNotRun
    /\ fileDamage = NoDamage
    /\ fileOverwrite = FALSE
    /\ fileRecovered = NothingRecovered

\* deconstruct_file up to the first frame: the file read, the header made, the
\* folder cleared, the Hamming code computed
Planned(plan) ==
    IF plan.ok
    THEN filePc' = "writing" /\ filePlan' = plan.val /\ UNCHANGED fileResult
    ELSE filePc' = "failed" /\ fileResult' = plan /\ UNCHANGED filePlan

\* `fs::read(path).context("Unable to read source file")?` comes first: when
\* it fails deconstruct_file returns before clear_framebuffer_folder is called
DeconstructBegin ==
    /\ filePc = "start"
    /\ IF fileReadable
       THEN /\ fileStore' = EmptyFolder
            /\ Planned(file_data_with_correction(fileSource))
       ELSE /\ filePc' = "failed"
            /\ fileResult' = Err("unable_to_read_source")
            /\ UNCHANGED <<fileStore, filePlan>>
    /\ UNCHANGED <<build, fileDamage, fileOverwrite, fileRecovered, fileConv, fileSource, fileReadable, fileWritten, fileVideo, fileDest>>

\* deconstruct_file: the next frame saved, and Ok(()) after the last one
FrameSaved(frame) ==
    IF frame.ok
    THEN /\ fileStore' = WriteFile(fileStore, frame_path_combine(fileWritten), frame.val)
         /\ fileWritten' = fileWritten + 1
         /\ IF fileWritten + 1 = FrameTotal(fileConv, filePlan)
            THEN filePc' = "deconstructed" /\ fileResult' = Ok(<<>>)
            ELSE UNCHANGED <<filePc, fileResult>>
    ELSE /\ filePc' = "failed"
         /\ fileResult' = frame
         /\ UNCHANGED <<fileStore, fileWritten>>

DeconstructWrite ==
    /\ filePc = "writing"
    /\ FrameSaved(FrameAt(fileConv, filePlan, fileWritten, build))
    /\ UNCHANGED <<build, fileDamage, fileOverwrite, fileRecovered, fileConv, fileSource, fileReadable, filePlan, fileVideo, fileDest>>

\* combine_frames, with a video codec that loses nothing: the combine frames
\* in the order of their names
combine_frames ==
    /\ filePc = "deconstructed"
    /\ fileVideo' = Glob(fileStore, "combine")
    /\ filePc' = "combined"
    /\ fileResult' = Ok(<<>>)
    /\ UNCHANGED <<build, fileDamage, fileOverwrite, fileRecovered, fileConv, fileSource, fileReadable, filePlan, fileWritten, fileStore, fileDest>>

\* split_video: the folder cleared, then one split frame per frame of the
\* video, numbered from 1, at DOWNSAMPLE_SCALER times the data resolution
split_video ==
    /\ filePc \in {"combined", "transmitted"}
    /\ fileStore' = [name \in {frame_path_split(k) : k \in 1..Len(fileVideo)} |->
                        Upscaled(fileVideo[name[2]])]
    /\ filePc' = "split"
    /\ fileResult' = Ok(<<>>)
    /\ UNCHANGED <<build, fileDamage, fileOverwrite, fileRecovered, fileConv, fileSource, fileReadable, filePlan, fileWritten, fileVideo, fileDest>>

\* some other program creates the destination file before reconstruct_file runs
DestinationAppears ==
    /\ filePc = "split"
    /\ ~fileDest.exists
    /\ fileDest' = File(<<170>>)
    /\ UNCHANGED <<build, fileDamage, fileOverwrite, fileRecovered, fileConv, fileSource, fileReadable, filePc, filePlan, fileWritten,
                   fileStore, fileVideo, fileResult>>

Reconstructed(run) ==
    /\ fileResult' = run.result
    /\ fileDest' = run.dest

\* the call of reconstruct_file with either value of overwrite
Delivered(recovered) ==
    /\ fileRecovered' =
           [found_header_frame |-> recovered.scan.found_header_frame,
            checked_header |-> recovered.scan.checked_header,
            decoded_len |-> IF recovered.decoded.ok THEN Len(recovered.decoded.val) ELSE 0,
            read_from_video |-> recovered.scan.read_from_video,
            decoded_ok |-> recovered.decoded.ok,
            report |-> IF recovered.decoded.ok THEN recovered.decoded.report
                       ELSE [corrected_errors |-> 0, uncorrected_errors |-> 0]]
    /\ \E overwrite \in BOOLEAN :
          /\ fileOverwrite' = overwrite
          /\ Reconstructed(Finished(recovered, fileDest, overwrite))

ReconstructFile ==
    /\ filePc = "split"
    /\ Delivered(Recovered(fileConv, fileStore, build))
    /\ filePc' = "done"
    /\ UNCHANGED <<build, fileDamage, fileConv, fileSource, fileReadable, filePlan, fileWritten, fileStore, fileVideo>>

---------------------------------------------------------------------------
(* The video between combine_frames and split_video: a channel that may
   change bits of the byte stream the frames carry *)

\* the largest number of code words hit by one flip each
MaxDamagedWords == 2
\* the largest distance between the two positions flipped in one code word
MaxPairGap == 1

\* the code words of a stream: everything after the three header copies
WordCount(plan) == (Len(plan) - HEADER_LEN * 3) \div BYTES_U32

\* the number of bytes decode_with_hamming_31_26 returns in reconstruct_file
\* for a video of the frames of this stream: the bytes of the data frames after
\* the header and of the guard frames behind them, in whole code words
RecoveredLen(conv, plan) ==
    ((div_ceil((ChunkCount(plan, conv.frame_data_byte_count) + POSTBUFFER_FRAMES)
                   * conv.frame_data_byte_count - HEADER_LEN * 3,
               HAMMING_CHUNK_BYTES_TOAL_31_26)
      * (HAMMING_CHUNK_BYTES_TOAL_31_26 \div BYTES_U32)) * HAMMING_DATA_BITS_31_26)
    \div U8_BITS

\* What the channel does, [kind, w, a, b]:
\*   "singles"     in each of the first w code words the bit (a + b * j) % 32
\*                 is flipped, j the number of the code word from 0
\*   "pair"        in code word w (from 1) the bits a and b are flipped
\*   "header_bit"  bit a of the header is flipped in the two copies other than b
\*   "length"      the length field of all three header copies is set to a
\*   "erase"       the three header copies are set to zero
\*   "blank"       every byte of the stream is set to zero
Damages(conv, plan) ==
    {[kind |-> "singles", w |-> 1, a |-> p, b |-> 0] : p \in BitPositions}
    \cup {[kind |-> "singles", w |-> m, a |-> p, b |-> 7] :
             m \in (2..MaxDamagedWords) \cup {WordCount(plan)}, p \in {0, 31}}
    \cup {[kind |-> "pair", w |-> w, a |-> p, b |-> (p + gap) % 32] :
             w \in {1, WordCount(plan)}, p \in BitPositions, gap \in 1..MaxPairGap}
    \cup {[kind |-> "header_bit", w |-> 0, a |-> q, b |-> c] :
             q \in {0, 63, 64, 69, 127, 128, HeaderBits - 1}, c \in {0, 2}}
    \cup {[kind |-> "length", w |-> 0, a |-> n, b |-> 0] :
             n \in {0, 1, RecoveredLen(conv, plan), RecoveredLen(conv, plan) + 1}}
    \cup {[kind |-> "erase", w |-> 0, a |-> 0, b |-> 0],
          [kind |-> "blank", w |-> 0, a |-> 0, b |-> 0]}

\* whether the channel flips bit i of the k-th byte of the stream (k from 1)
Hit(damage, k, i) ==
    IF k <= HEADER_LEN * 3
    THEN /\ damage.kind = "header_bit"
         /\ U8_BITS * ((k - 1) % HEADER_LEN) + i = damage.a
         /\ (k - 1) \div HEADER_LEN # damage.b
    ELSE LET word == (k - HEADER_LEN * 3 - 1) \div BYTES_U32
             position == U8_BITS * ((k - HEADER_LEN * 3 - 1) % BYTES_U32) + i
         IN  CASE damage.kind = "singles" ->
                      word < damage.w /\ position = (damage.a + damage.b * word) % 32
               [] damage.kind = "pair" ->
                      word + 1 = damage.w /\ position \in {damage.a, damage.b}
               [] OTHER -> FALSE

RECURSIVE HitByte(_, _, _, _)
\* the byte x, the k-th of the stream, with the bits from i up that the channel
\* flips flipped
HitByte(damage, x, k, i) ==
    IF i = U8_BITS THEN 0
    ELSE (IF Hit(damage, k, i) THEN 1 - BitOf(x, i) ELSE BitOf(x, i)) * Pow2[i]
         + HitByte(damage, x, k, i + 1)

\* the stream as it leaves the channel
DamagedStream(plan, damage) ==
    [k \in 1..Len(plan) |->
        CASE damage.kind = "none" -> plan[k]
          [] damage.kind = "blank" -> 0
          [] damage.kind = "erase" -> IF k <= HEADER_LEN * 3 THEN 0 ELSE plan[k]
          [] damage.kind = "length" ->
                 IF k <= HEADER_LEN * 3 /\ (k - 1) % HEADER_LEN \in 8..15
                 THEN u64_to_le_bytes(damage.a)[((k - 1) % HEADER_LEN) - 7]
                 ELSE plan[k]
          [] OTHER -> HitByte(damage, plan[k], k, 0)]

\* the frames of a video that carries the stream: guard frames around the
\* data frames, as deconstruct_file lays them out
VideoOf(conv, stream, profile) ==
    [k \in 1..FrameTotal(conv, stream) |-> FrameAt(conv, stream, k - 1, profile)]

\* frames out of their Results
Frames(results) == [k \in 1..Len(results) |-> results[k].val]

Transmitted(damage, results) ==
    /\ \A k \in 1..Len(results) : results[k].ok
    /\ fileDamage' = damage
    /\ fileVideo' = Frames(results)

\* the video reaches split_video with bits of its stream changed
VideoDamaged ==
    /\ filePc = "combined"
    /\ \E damage \in Damages(fileConv, filePlan) :
          Transmitted(damage, VideoOf(fileConv, DamagedStream(filePlan, damage), build))
    /\ filePc' = "transmitted"
    /\ UNCHANGED <<build, fileOverwrite, fileRecovered, fileConv, fileSource, fileReadable, filePlan,
                   fileWritten, fileStore, fileDest, fileResult>>

\* bit counts and data dimensions for the damaged video: frames of exactly
\* 144 bytes, so that the header fills the first data frame
NoisyConfigs == {<<<<8, 8, 8>>, <<8, 6>>>>}

NoisyConverters ==
    {r.val : r \in {c \in {Converter_new(cfg[1], 1, 30,
                               <<DOWNSAMPLE_SCALER * cfg[2][1], DOWNSAMPLE_SCALER * cfg[2][2]>>,
                               cfg[2]) : cfg \in NoisyConfigs} : c.ok}}

\* one block and a byte more than one block
NoisySources ==
    {Pattern("scramble", HAMMING_CHUNK_BYTES_31_26),
     Pattern("count", HAMMING_CHUNK_BYTES_31_26 + 1)}

NoisyInit ==
    /\ build = "release"
    /\ fileConv \in NoisyConverters
    /\ fileSource \in NoisySources
    /\ fileReadable = TRUE
    /\ filePc = "start"
    /\ filePlan = <<>>
    /\ fileWritten = 0
    /\ fileStore = EmptyFolder
    /\ fileVideo = <<>>
    /\ fileDest \in {NoFile, File(<<170>>)}
    /\ fileResult = FileNotRun
    /\ fileDamage = NoDamage
    /\ fileOverwrite = FALSE
    /\ fileRecovered = NothingRecovered

FileIdle ==
    /\ fileConv = NoConverter
    /\ fileSource = <<>>
    /\ fileReadable = TRUE
    /\ filePc = "idle"
    /\ filePlan = <<>>
    /\ fileWritten = 0
    /\ fileStore = EmptyFolder
    /\ fileVideo = <<>>
    /\ fileDest = NoFile
    /\ fileResult = FileNotRun
    /\ fileDamage = NoDamage
    /\ fileOverwrite = FALSE
    /\ fileRecovered = NothingRecovered

---------------------------------------------------------------------------
(* The frame folder over several operations: deconstruct_file and split_video
   called again and again on one folder, with sources that cannot be read and
   frames that cannot be saved *)

\* the longest source of these runs, in 13-byte blocks (and one byte more)
MaxStoreBlocks == 1

\* frames of 144 bytes (7 or 8 frames to a source) and of 32 bytes (11 or 12)
StoreConfigs ==
    {<<<<8, 8, 8>>, <<8, 6>>>>,
     <<<<1, 2, 1>>, <<8, 8>>>>}

StoreConverters ==
    {r.val : r \in {c \in {Converter_new(cfg[1], 1, 30,
                               <<DOWNSAMPLE_SCALER * cfg[2][1], DOWNSAMPLE_SCALER * cfg[2][2]>>,
                               cfg[2]) : cfg \in StoreConfigs} : c.ok}}

\* [readable, content]: the empty file, a file of one byte more than
\* MaxStoreBlocks blocks, and a path that names no file
StoreSources ==
    {[readable |-> TRUE, content |-> <<>>],
     [readable |-> TRUE,
      content |-> Pattern("count", HAMMING_CHUNK_BYTES_31_26 * MaxStoreBlocks + 1)],
     [readable |-> FALSE, content |-> <<>>]}

StoreInit ==
    /\ build = "release"
    /\ fileConv \in StoreConverters
    /\ \E source \in StoreSources :
          fileSource = source.content /\ fileReadable = source.readable
    /\ filePc = "start"
    /\ filePlan = <<>>
    /\ fileWritten = 0
    /\ fileStore = EmptyFolder
    /\ fileVideo = <<>>
    /\ fileDest = NoFile
    /\ fileResult = FileNotRun
    /\ fileDamage = NoDamage
    /\ fileOverwrite = FALSE
    /\ fileRecovered = NothingRecovered

\* save_data_frame: `img_buffer.save(path)` fails.  The file of the frame is
\* not there afterwards, or it is there with a part of its content; no later
\* frame is saved, deconstruct_file returns the error.
WriteFails ==
    /\ filePc = "writing"
    /\ \E partial \in BOOLEAN :
          fileStore' = IF partial
                       THEN WriteFile(fileStore, frame_path_combine(fileWritten),
                                      Image(0, 0, <<>>))
                       ELSE fileStore
    /\ filePc' = "failed"
    /\ fileResult' = Err("unable_to_save_frame")
    /\ UNCHANGED <<build, fileDamage, fileOverwrite, fileRecovered, fileConv,
                   fileSource, fileReadable, filePlan, fileWritten, fileVideo, fileDest>>

\* split_video called whatever the folder holds: on the video file of an
\* earlier combine_frames, or on a path that names no video (ffmpeg fails
\* after the folder is cleared)
SplitEarlierVideo ==
    /\ filePc \in {"deconstructed", "failed", "split_failed", "done"}
    /\ IF fileVideo = <<>>
       THEN /\ fileStore' = EmptyFolder
            /\ filePc' = "split_failed"
            /\ fileResult' = Err("ffmpeg_nonzero_exit")
       ELSE /\ fileStore' =
                   [name \in {frame_path_split(k) : k \in 1..Len(fileVideo)} |->
                       Upscaled(fileVideo[name[2]])]
            /\ filePc' = "split"
            /\ fileResult' = Ok(<<>>)
    /\ UNCHANGED <<build, fileDamage, fileOverwrite, fileRecovered, fileConv,
                   fileSource, fileReadable, filePlan, fileWritten, fileVideo, fileDest>>

\* the program is started again to deconstruct another source: the folder, the
\* video file and the destination file stay as they are
AnotherOperation ==
    /\ filePc \in {"failed", "deconstructed", "combined", "split", "split_failed", "done"}
    /\ \E source \in StoreSources :
          fileSource' = source.content /\ fileReadable' = source.readable
    /\ filePc' = "start"
    /\ filePlan' = <<>>
    /\ fileWritten' = 0
    /\ fileResult' = FileNotRun
    /\ fileOverwrite' = FALSE
    /\ fileRecovered' = NothingRecovered
    /\ UNCHANGED <<build, fileDamage, fileConv, fileStore, fileVideo, fileDest>>

---------------------------------------------------------------------------
(* Specifications *)

\* the build profile does not matter to the Hamming codec and Converter::new
BuildIdle == build = "release"

SpecHammingInit == HamInit /\ NewIdle /\ BuildIdle /\ PixIdle /\ HdrIdle /\ FileIdle
SpecHammingNext ==
    \/ DecodeWord /\ UNCHANGED <<newVars, build, pixVars, hdrVars, fileVars>>
    \/ CodecStream /\ UNCHANGED <<newVars, build, pixVars, hdrVars, fileVars>>
SpecHamming == SpecHammingInit /\ [][SpecHammingNext]_vars

SpecNewInit == NewInit /\ HamIdle /\ BuildIdle /\ PixIdle /\ HdrIdle /\ FileIdle
SpecNewNext == New /\ UNCHANGED <<hamVars, build, pixVars, hdrVars, fileVars>>
SpecNew == SpecNewInit /\ [][SpecNewNext]_vars

SpecPixelInit == PixInit /\ HamIdle /\ NewIdle /\ HdrIdle /\ FileIdle
SpecPixelNext == PixelCodec /\ UNCHANGED <<hamVars, newVars, hdrVars, fileVars>>
SpecPixel == SpecPixelInit /\ [][SpecPixelNext]_vars

SpecHeaderInit == HdrInit /\ HamIdle /\ NewIdle /\ BuildIdle /\ PixIdle /\ FileIdle
SpecHeaderNext == HeaderCodec /\ UNCHANGED <<hamVars, newVars, build, pixVars, fileVars>>
SpecHeader == SpecHeaderInit /\ [][SpecHeaderNext]_vars

Init == FileInit /\ HamIdle /\ NewIdle /\ PixIdle /\ HdrIdle
Next ==
    \/ DeconstructBegin /\ UNCHANGED <<hamVars, newVars, pixVars, hdrVars>>
    \/ DeconstructWrite /\ UNCHANGED <<hamVars, newVars, pixVars, hdrVars>>
    \/ combine_frames /\ UNCHANGED <<hamVars, newVars, pixVars, hdrVars>>
    \/ split_video /\ UNCHANGED <<hamVars, newVars, pixVars, hdrVars>>
    \/ DestinationAppears /\ UNCHANGED <<hamVars, newVars, pixVars, hdrVars>>
    \/ ReconstructFile /\ UNCHANGED <<hamVars, newVars, pixVars, hdrVars>>
Spec == Init /\ [][Next]_vars

SpecNoisyInit == NoisyInit /\ HamIdle /\ NewIdle /\ PixIdle /\ HdrIdle
SpecNoisyNext ==
    \/ DeconstructBegin /\ UNCHANGED <<hamVars, newVars, pixVars, hdrVars>>
    \/ DeconstructWrite /\ UNCHANGED <<hamVars, newVars, pixVars, hdrVars>>
    \/ combine_frames /\ UNCHANGED <<hamVars, newVars, pixVars, hdrVars>>
    \/ VideoDamaged /\ UNCHANGED <<hamVars, newVars, pixVars, hdrVars>>
    \/ split_video /\ UNCHANGED <<hamVars, newVars, pixVars, hdrVars>>
    \/ ReconstructFile /\ UNCHANGED <<hamVars, newVars, pixVars, hdrVars>>
SpecNoisy == SpecNoisyInit /\ [][SpecNoisyNext]_vars

\* the frame folder over several operations
SpecStoreInit == StoreInit /\ HamIdle /\ NewIdle /\ PixIdle /\ HdrIdle
SpecStoreNext ==
    \/ DeconstructBegin /\ UNCHANGED <<hamVars, newVars, pixVars, hdrVars>>
    \/ DeconstructWrite /\ UNCHANGED <<hamVars, newVars, pixVars, hdrVars>>
    \/ WriteFails /\ UNCHANGED <<hamVars, newVars, pixVars, hdrVars>>
    \/ combine_frames /\ UNCHANGED <<hamVars, newVars, pixVars, hdrVars>>
    \/ split_video /\ UNCHANGED <<hamVars, newVars, pixVars, hdrVars>>
    \/ SplitEarlierVideo /\ UNCHANGED <<hamVars, newVars, pixVars, hdrVars>>
    \/ ReconstructFile /\ UNCHANGED <<hamVars, newVars, pixVars, hdrVars>>
    \/ AnotherOperation /\ UNCHANGED <<hamVars, newVars, pixVars, hdrVars>>
SpecStore == SpecStoreInit /\ [][SpecStoreNext]_vars

---------------------------------------------------------------------------
(* Properties of the Hamming codec *)

WordRan == hamTask = "word" /\ wordResult # WordNotRun
StreamRan == hamTask = "stream" /\ streamDecoded # StreamNotRun

\* C3: a stream whose length is a multiple of 13 bytes, encoded and decoded
\* with no bit changed in between, comes back byte for byte, and the report
\* counts no corrected and no uncorrected error.
C3_HammingRoundTrip ==
    (StreamRan /\ Len(streamInput) % HAMMING_CHUNK_BYTES_31_26 = 0
               /\ streamFlips.bits = {})
        => /\ streamEncoded.ok
           /\ streamDecoded.ok
           /\ streamDecoded.val = streamInput
           /\ streamDecoded.report =
                  [corrected_errors |-> 0, uncorrected_errors |-> 0]

\* a two-block stream of mixed bytes that made the round trip
C3_Witness ==
    /\ StreamRan
    /\ streamFlips.bits = {}
    /\ streamInput = Pattern("scramble", 2 * HAMMING_CHUNK_BYTES_31_26)
    /\ Len(streamEncoded.val) = 2 * HAMMING_CHUNK_BYTES_TOAL_31_26
    /\ streamDecoded.val = streamInput

\* C4: with one bit of a code word flipped (any of the 32, the overall parity
\* bit included) the word decoder returns the original 26 data bits with
\* status CorrectedSingle, and the stream decoder counts exactly one corrected
\* and no uncorrected error for the stream that holds the word.
C4_SingleErrorCorrected ==
    /\ (WordRan /\ Cardinality(wordFlips) = 1)
          => wordResult = [data |-> wordData, status |-> "CorrectedSingle"]
    /\ (StreamRan /\ Cardinality(streamFlips.bits) = 1)
          => /\ streamDecoded.val = streamInput
             /\ streamDecoded.report =
                    [corrected_errors |-> 1, uncorrected_errors |-> 0]

\* the overall parity bit of the all-ones data word was flipped and put right
C4_Witness ==
    /\ WordRan
    /\ wordFlips = {31}
    /\ wordData = BIT_MASK_26
    /\ wordResult = [data |-> BIT_MASK_26, status |-> "CorrectedSingle"]

\* C5: with two distinct bits of a code word flipped (either may be bit 31)
\* the word decoder returns status Uncorrectable, and the stream decoder
\* counts exactly one uncorrected error (and no corrected one) for the stream
\* that holds the word.
C5_DoubleErrorDetected ==
    /\ (WordRan /\ Cardinality(wordFlips) = 2)
          => wordResult.status = "Uncorrectable"
    /\ (StreamRan /\ Cardinality(streamFlips.bits) = 2)
          => streamDecoded.report =
                 [corrected_errors |-> 0, uncorrected_errors |-> 1]

\* a data bit and the overall parity bit were flipped together
C5_Witness ==
    /\ WordRan
    /\ wordFlips = {30, 31}
    /\ wordData = 22369621
    /\ wordResult.status = "Uncorrectable"

---------------------------------------------------------------------------
(* Properties of Converter::new *)

NewRan == newResult # NewNotRun

\* C8: construction never yields a Converter when one of the three channel
\* bit counts is outside 1..8 (0 included).
C8_BitCountsOutsideRangeRejected ==
    (NewRan /\ \E c \in 1..COLOR_CHANNELS : newArgs.color_bits[c] \notin 1..U8_BITS)
        => ~newResult.ok

\* Some integers kx, ky >= 2 scale the data dimensions to the frame dimensions.
ScaledPerAxis(frame, data) ==
    \E kx \in DOWNSAMPLE_SCALER..(frame[1] + DOWNSAMPLE_SCALER),
       ky \in DOWNSAMPLE_SCALER..(frame[2] + DOWNSAMPLE_SCALER) :
        frame[1] = kx * data[1] /\ frame[2] = ky * data[2]

\* One integer k >= 2 scales both data dimensions to the frame dimensions.
ScaledByOneFactor(frame, data) ==
    \E k \in DOWNSAMPLE_SCALER..(frame[1] + frame[2] + DOWNSAMPLE_SCALER) :
        frame[1] = k * data[1] /\ frame[2] = k * data[2]

\* every channel bit count is one the parameters allow
BitCountsInRange ==
    \A c \in 1..COLOR_CHANNELS : newArgs.color_bits[c] \in 1..U8_BITS

FpsRule(data_fps, video_fps) ==
    /\ MIN_FPS <= data_fps
    /\ data_fps <= video_fps
    /\ video_fps % data_fps = 0

\* C10 as claimed: Converter::new succeeds only when both frame rates lie in
\* 1..60, data_fps <= video_fps and video_fps is a multiple of data_fps.
\* (Stated for channel bit counts within 1..8, as above.)
C10_FpsWithinSixty ==
    (NewRan /\ newResult.ok /\ BitCountsInRange)
        => /\ newArgs.data_fps \in 1..60
           /\ newArgs.video_fps \in 1..60
           /\ FpsRule(newArgs.data_fps, newArgs.video_fps)

\* C10 as amended: Converter::new succeeds only when 1 <= data_fps <= video_fps
\* and video_fps is a multiple of data_fps, with no upper limit on either;
\* every other pair (data_fps = 0 included) yields an error value, never a
\* division by zero.
C10_FpsRuleWithoutUpperLimit ==
    /\ (NewRan /\ newResult.ok) => FpsRule(newArgs.data_fps, newArgs.video_fps)
    /\ (NewRan /\ ~FpsRule(newArgs.data_fps, newArgs.video_fps))
          => (~newResult.ok /\ ~newResult.panic)

\* a Converter with a video frame rate of 61
C10_Witness ==
    /\ NewRan
    /\ newResult.ok
    /\ newArgs.data_fps = 1
    /\ newArgs.video_fps = 61

---------------------------------------------------------------------------
(* Properties of the pixel codec *)

PixRan == pixFrame # PixNotRun

\* Claim C2 as stated: for every Converter that Converter::new returns and
\* every byte sequence of frame_data_byte_count bytes, data_to_frame returns
\* frame_data_unit_count * 3 samples and frame_to_data gives the bytes back,
\* neither of them tripping an assertion.  Converter::new returns Converters
\* with a bit count of zero (claim C8), and for those this fails.
C2_PixelRoundTrip ==
    PixRan =>
        /\ pixFrame.ok
        /\ Len(pixFrame.val) = pixConv.frame_data_unit_count * COLOR_CHANNELS
        /\ pixDecoded.ok
        /\ pixDecoded.val = pixData

\* the bit count of the channel of the k-th sample of a frame
ChannelBits(conv, k) ==
    <<conv.red_bits, conv.green_bits, conv.blue_bits>>[((k - 1) % COLOR_CHANNELS) + 1]

\* the j-th bit of a byte sequence, j counted from 0, first bit of a byte = its top bit
StreamBit(bytes, j) == BitOf(bytes[(j \div 8) + 1], 7 - (j % 8))

RECURSIVE StreamField(_, _, _)
\* the number written by the len bits of a byte sequence from bit j on
StreamField(bytes, j, len) ==
    IF len = 0 THEN 0
    ELSE 2 * StreamField(bytes, j, len - 1) + StreamBit(bytes, j + len - 1)

\* where the field of the k-th sample starts in the bytes handed to data_to_frame
FieldStart(conv, k) ==
    ((k - 1) \div COLOR_CHANNELS) * conv.total_bits
    + <<0, conv.red_bits, conv.red_bits + conv.green_bits>>[((k - 1) % COLOR_CHANNELS) + 1]

\* Claim C7: in every frame data_to_frame returns, a sample of a channel of
\* b < 8 bits has the bit just below its data field set and every lower bit
\* clear, and a sample of a channel of 8 bits is the 8-bit field of the input.
C7_AnchorBelowField ==
    (PixRan /\ pixFrame.ok) =>
        \A k \in 1..Len(pixFrame.val) :
            LET b == ChannelBits(pixConv, k)
                sample == pixFrame.val[k]
            IN  IF b < 8
                THEN BitAnd(sample, Shl(1, 8 - b) - 1) = Shl(1, 7 - b)
                ELSE sample = StreamField(pixData, FieldStart(pixConv, k), 8)

\* an all-zero frame of a (1, 2, 8)-bit Converter encoded, and a frame of
\* counting bytes whose 8-bit channel carries non-zero fields
C7_Witness ==
    /\ PixRan /\ pixFrame.ok
    /\ <<pixConv.red_bits, pixConv.green_bits, pixConv.blue_bits>> = <<1, 2, 8>>
    /\ \E k \in 1..Len(pixFrame.val) : pixFrame.val[k] \notin {0, 32, 64}

\* the round trip for bit counts within 1..8
PixelRoundTripInRange ==
    (PixRan /\ \A i \in 1..3 : ChannelBits(pixConv, i) \in 1..U8_BITS) =>
        /\ pixFrame.ok
        /\ pixDecoded.ok
        /\ pixDecoded.val = pixData

C7_ZeroFrame ==
    /\ PixRan /\ pixFrame.ok
    /\ <<pixConv.red_bits, pixConv.green_bits, pixConv.blue_bits>> = <<1, 2, 8>>
    /\ \A i \in 1..Len(pixData) : pixData[i] = 0
    /\ SubSeq(pixFrame.val, 1, 3) = <<64, 32, 0>>

---------------------------------------------------------------------------
(* Properties of the header *)

HdrRan == hdrRead # HdrNotRun

\* the copies in which header bit q (bit q % 8 of byte q \div 8) of the bytes
\* handed to read_data_header differs from the header that was built
FlippedCopies(q) ==
    LET clean == data_block_header(hdrData)
    IN  {c \in 0..2 :
            LET k == c * HEADER_LEN + (q \div 8) + 1
            IN  BitOf(hdrBytes[k], q % 8) # BitOf(clean[k], q % 8)}

AtMostOneCopyFlipped ==
    \A q \in 0..(HeaderBits - 1) : Cardinality(FlippedCopies(q)) <= 1

\* Claim C6: when at each of the 384 bit positions of the header at most one
\* of the three copies is flipped, read_data_header returns the magic, the
\* length and the hash that data_block_header wrote.
C6_HeaderMajority ==
    (HdrRan /\ AtMostOneCopyFlipped) =>
        /\ hdrRead.ok
        /\ hdrRead.val = [version_code |-> VERSION_CODE,
                          data_len |-> Len(hdrData),
                          sha256_hash |-> Sha256(hdrData)]

\* every bit position of the header flipped in one copy, all three copies
\* damaged, and the header read back
C6_Witness ==
    /\ HdrRan /\ hdrRead.ok
    /\ Len(hdrData) = 1
    /\ \A q \in 0..(HeaderBits - 1) : Cardinality(FlippedCopies(q)) = 1
    /\ \A c \in 0..2 : \E q \in 0..(HeaderBits - 1) : c \in FlippedCopies(q)

\* one bit flipped in two copies changes what is read
HeaderDoubleFlipWins ==
    (HdrRan /\ hdrDamage.kind = "double") =>
        hdrRead.val # [version_code |-> VERSION_CODE,
                       data_len |-> Len(hdrData),
                       sha256_hash |-> Sha256(hdrData)]

---------------------------------------------------------------------------
(* Properties of the file round trip *)

FileEnded == filePc \in {"done", "failed"}

\* Claim C1 as stated: for every source file, the empty one too, and every
\* Converter that Converter::new returns, deconstruct_file, the lossless
\* video step and reconstruct_file succeed, the destination holds the bytes
\* of the source and hash_match is true.  (A run that ends because the
\* destination exists and overwrite is off is not a case of the claim.)
C1_FileRoundTrip ==
    (FileEnded /\ fileResult.err # "output_exists") =>
        /\ filePc = "done"
        /\ fileResult.ok
        /\ fileResult.val.hash_match
        /\ fileDest = File(fileSource)

\* the round trip for a source of at least one byte and a Converter with bit
\* counts within 1..8 and frames of at least 144 bytes
FileRoundTripInRange ==
    (/\ FileEnded
     /\ fileResult.err # "output_exists"
     /\ fileSource # <<>>
     /\ \A i \in 1..3 : ChannelBits(fileConv, i) \in 1..U8_BITS
     /\ fileConv.frame_data_byte_count >= HEADER_LEN * 3) =>
        /\ filePc = "done"
        /\ fileResult.ok
        /\ fileResult.val = FileReport([corrected_errors |-> 0, uncorrected_errors |-> 0], TRUE)
        /\ fileDest = File(fileSource)

FileRoundTripDone ==
    /\ filePc = "done" /\ fileResult.ok /\ fileResult.val.hash_match
    /\ Len(fileSource) = 14
    /\ fileConv.frame_data_byte_count = 168
    /\ fileDest = File(fileSource)

---------------------------------------------------------------------------
(* Properties of Converter::new: totality *)

\* C11: Converter::new is total.  For every argument tuple, a data width or
\* height of 0 included, it returns a Converter whose derived fields satisfy
\* frame_data_byte_count * 8 = data_width * data_height * total_bits, or an
\* error value; it never panics.
C11_NewTotal ==
    NewRan =>
        /\ ~newResult.panic
        /\ newResult.ok =>
              /\ newResult.val.frame_data_byte_count * U8_BITS
                     = newResult.val.data_width * newResult.val.data_height
                           * newResult.val.total_bits
              /\ newResult.val.frame_data_unit_count
                     = newResult.val.data_width * newResult.val.data_height

\* the same with the data dimensions at least 1: a value is always returned
NewTotalForNonZeroData ==
    (NewRan /\ newArgs.data_dimensions[1] > 0 /\ newArgs.data_dimensions[2] > 0) =>
        /\ ~newResult.panic
        /\ newResult.ok =>
              newResult.val.frame_data_byte_count * U8_BITS
                  = newResult.val.data_width * newResult.val.data_height
                        * newResult.val.total_bits

\* a data width or height of 0 that gets as far as the dimension checks panics
NewPanicsOnZeroData ==
    (/\ NewRan
     /\ newArgs.data_dimensions[1] = 0
     /\ ColorBitsCheck(newArgs.color_bits).ok
     /\ FpsCheck(newArgs.data_fps, newArgs.video_fps).ok) => newResult.panic

---------------------------------------------------------------------------
(* Properties of reconstruct_file: framing, hash, destination *)

\* a step that is the call of reconstruct_file
ReconstructStep == filePc = "split" /\ filePc' = "done"

\* what reconstruct_file recovered does not frame a payload: no header frame
\* found or a magic that differs, a length of 0, a length above the number of
\* decoded bytes
FramingFault ==
    \/ ~fileRecovered.found_header_frame
    \/ fileRecovered.checked_header.version_code # VERSION_CODE
    \/ fileRecovered.checked_header.data_len = 0
    \/ fileRecovered.checked_header.data_len = BeyondRange
    \/ fileRecovered.checked_header.data_len > fileRecovered.decoded_len

\* C12: reconstruct_file ends without Ok and leaves the destination as it
\* was whenever no frame with a non-zero header prefix is found or the magic
\* recovered differs from VERSION_CODE, whenever the length recovered is 0, and
\* whenever it exceeds the number of Hamming-decoded bytes; when it returns Ok
\* the file written has exactly as many bytes as the header's length says.
C12_FramingFaultsAbort ==
    [][ReconstructStep =>
          /\ FramingFault' => (~fileResult'.ok /\ fileDest' = fileDest)
          /\ fileResult'.ok =>
                /\ fileDest'.exists
                /\ Len(fileDest'.content) = fileRecovered'.checked_header.data_len]_vars

\* a length above the decoded bytes was recovered, overwrite was on, and the
\* file that was at the destination is still there
C12_Witness ==
    /\ filePc = "done"
    /\ fileDamage.kind = "length"
    /\ fileRecovered.found_header_frame
    /\ fileRecovered.checked_header.version_code = VERSION_CODE
    /\ fileRecovered.checked_header.data_len > fileRecovered.decoded_len
    /\ fileOverwrite
    /\ fileResult = Err("read_less_data")
    /\ fileDest = File(<<170>>)

\* each way of failing to frame a payload happens
FramingNoHeaderFrame ==
    ~(filePc = "done" /\ ~fileRecovered.found_header_frame /\ ~fileResult.ok)
FramingMagicDiffers ==
    ~(/\ filePc = "done" /\ fileRecovered.found_header_frame
      /\ fileRecovered.checked_header.version_code # VERSION_CODE /\ ~fileResult.ok)
FramingLengthZero ==
    ~(/\ filePc = "done" /\ fileRecovered.found_header_frame
      /\ fileRecovered.checked_header.version_code = VERSION_CODE
      /\ fileRecovered.checked_header.data_len = 0 /\ ~fileResult.ok)

\* the destination was there and overwrite was off
Refused == fileDest.exists /\ ~fileOverwrite'

\* C13: a hash that does not match and uncorrectable code words are not fatal.
\* When the magic and the length recovered are valid (and the destination may
\* be written), reconstruct_file writes the decoded bytes cut to the header's
\* length, returns Ok, and hash_match is true exactly when the hash of the
\* bytes written equals the hash in the header.
C13_HashMismatchNotFatal ==
    [][(ReconstructStep /\ ~FramingFault' /\ ~Refused) =>
          /\ fileResult'.ok
          /\ fileDest'.exists
          /\ Len(fileDest'.content) = fileRecovered'.checked_header.data_len
          /\ fileResult'.val.hash_match
                 = (Sha256(fileDest'.content) = fileRecovered'.checked_header.sha256_hash)]_vars

\* two bits of a code word flipped: Ok, one uncorrected error counted, the
\* bytes written differ from the source and hash_match is false
C13_Witness ==
    /\ filePc = "done"
    /\ fileDamage.kind = "pair"
    /\ fileResult.ok
    /\ fileResult.val.uncorrected_errors = 1
    /\ ~fileResult.val.hash_match
    /\ fileDest.exists
    /\ fileDest.content # fileSource
    /\ Len(fileDest.content) = Len(fileSource)

\* the hash in the header changed, the payload intact: delivered, no match
HashFieldDamagedDelivered ==
    ~(/\ filePc = "done" /\ fileDamage.kind = "header_bit" /\ fileDamage.a >= 128
      /\ fileResult.ok /\ ~fileResult.val.hash_match /\ fileDest = File(fileSource))

\* C14: with the destination there and overwrite off reconstruct_file does
\* not return Ok and the destination keeps its content; the destination is
\* replaced only when overwrite is on or there was no destination.
C14_OverwriteRefused ==
    [][ReconstructStep =>
          /\ Refused => (~fileResult'.ok /\ fileDest' = fileDest)
          /\ fileDest' # fileDest => (fileOverwrite' \/ ~fileDest.exists)]_vars

\* a sound video, the destination there, overwrite off: refused, nothing written
C14_Witness ==
    /\ filePc = "done"
    /\ ~fileOverwrite
    /\ fileResult = Err("output_exists")
    /\ fileDest = File(<<170>>)
    /\ fileSource # <<170>>
    /\ ~FramingFault

\* a sound video, the destination there, overwrite on: replaced
OverwriteReplaces ==
    ~(/\ filePc = "done" /\ fileOverwrite /\ fileResult.ok
      /\ fileDest = File(fileSource) /\ fileSource # <<>>)

---------------------------------------------------------------------------
(* Properties of reconstruct_file: flipped bits in code words *)

\* reconstruct_file ran and was not stopped by the destination
FileDelivered == filePc = "done" /\ fileResult.err # "output_exists"

\* position p of the code word w (from 1) of the stream holds a bit of the
\* first n bytes of the payload.  The encoder fills the 26 data bits of the
\* code words from the payload's bits in order, the earliest bit at the top.
CarriesPayload(w, p, n) ==
    \E i \in 0..(HAMMING_DATA_BITS_31_26 - 1) :
        /\ HAMMING_DATA_POSITIONS_31_26[i + 1] = p
        /\ HAMMING_DATA_BITS_31_26 * (w - 1) + (HAMMING_DATA_BITS_31_26 - 1 - i)
               < U8_BITS * n

\* C15 as stated: two distinct bits of one code word flipped, any two of the
\* 32 positions in any code word: uncorrected_errors is 1, hash_match is false
\* and the bytes delivered differ from the payload.
C15_DoubleFlipNeverMatches ==
    (FileDelivered /\ fileDamage.kind = "pair") =>
        /\ fileResult.ok
        /\ fileResult.val.uncorrected_errors = 1
        /\ ~fileResult.val.hash_match
        /\ fileDest.content # fileSource

\* C15 amended: two distinct bits of one code word flipped: reconstruct_file
\* returns Ok with uncorrected_errors 1 and corrected_errors 0; hash_match is
\* false, and the bytes delivered differ from the payload, exactly when one
\* of the two positions holds a bit of the payload; when both are parity
\* positions or hold padding the payload is delivered intact and hash_match
\* is true.
C15_DoubleFlipReported ==
    (FileDelivered /\ fileDamage.kind = "pair") =>
        /\ fileResult.ok
        /\ fileResult.val.uncorrected_errors = 1
        /\ fileResult.val.corrected_errors = 0
        /\ fileResult.val.hash_match = (fileDest.content = fileSource)
        /\ fileResult.val.hash_match
               = ~(\/ CarriesPayload(fileDamage.w, fileDamage.a, Len(fileSource))
                   \/ CarriesPayload(fileDamage.w, fileDamage.b, Len(fileSource)))

\* two parity positions of the first code word flipped: one uncorrected error,
\* the payload intact, hash_match true
C15_Witness ==
    /\ FileDelivered
    /\ fileDamage.kind = "pair"
    /\ fileDamage.w = 1
    /\ ~CarriesPayload(1, fileDamage.a, Len(fileSource))
    /\ ~CarriesPayload(1, fileDamage.b, Len(fileSource))
    /\ fileResult.ok
    /\ fileResult.val.uncorrected_errors = 1
    /\ fileResult.val.hash_match
    /\ fileDest = File(fileSource)

\* two positions of which one holds a payload bit: no match
DoubleFlipInPayload ==
    ~(/\ FileDelivered /\ fileDamage.kind = "pair"
      /\ CarriesPayload(fileDamage.w, fileDamage.a, Len(fileSource))
      /\ fileResult.ok /\ ~fileResult.val.hash_match)

\* C16: one bit flipped in each of m code words and no other bit changed:
\* reconstruct_file delivers the payload, corrected_errors is m,
\* uncorrected_errors is 0 and hash_match is true.
C16_SingleFlipsCorrected ==
    (FileDelivered /\ fileDamage.kind = "singles") =>
        /\ fileResult.ok
        /\ fileResult.val = FileReport([corrected_errors |-> fileDamage.w,
                                        uncorrected_errors |-> 0], TRUE)
        /\ fileDest = File(fileSource)

\* every code word of the stream, more than one of them, flipped once
C16_Witness ==
    /\ FileDelivered
    /\ fileDamage.kind = "singles"
    /\ fileDamage.w = WordCount(filePlan)
    /\ fileDamage.w > MaxDamagedWords
    /\ fileResult.ok
    /\ fileResult.val.corrected_errors = fileDamage.w
    /\ fileDest = File(fileSource)

---------------------------------------------------------------------------
(* Properties of the file round trip: scenarios *)

ScenarioOne == fileConv = ScenarioOneConverter /\ fileSource = ScenarioOnePayload

\* C17: with bit counts (1,2,1), 8 x 8 data units and the 64-byte payload
\* 0x00..0x3F deconstruct_file saves exactly one data frame between the guard
\* frames, that frame holds the header, and reconstruct_file recovers the 64
\* bytes.
C17_ScenarioOne ==
    (ScenarioOne /\ FileEnded /\ fileResult.err # "output_exists") =>
        /\ fileWritten = PREBUFFER_FRAMES + 1 + POSTBUFFER_FRAMES
        /\ Len(filePlan) >= HEADER_LEN * 3
        /\ fileConv.frame_data_byte_count >= HEADER_LEN * 3
        /\ fileResult.ok
        /\ fileDest = File(fileSource)

\* what the scenario does: 32 bytes to a frame, seven data frames of which the
\* first four and a half hold the header, and reconstruct_file panics on the
\* first frame
ScenarioOneRuns ==
    (ScenarioOne /\ FileEnded /\ fileResult.err # "output_exists") =>
        /\ fileConv.frame_data_byte_count = 32
        /\ Len(filePlan) = HEADER_LEN * 3 + 5 * HAMMING_CHUNK_BYTES_TOAL_31_26
        /\ fileWritten = PREBUFFER_FRAMES + 7 + POSTBUFFER_FRAMES
        /\ filePc = "done"
        /\ fileResult = Panic("slice_out_of_range")
        /\ ~fileRecovered.found_header_frame

ScenarioOneEnds == ~(ScenarioOne /\ filePc = "done")

\* eight bits to each channel
FullDepth == \A i \in 1..COLOR_CHANNELS : ChannelBits(fileConv, i) = U8_BITS

\* Converter::new with the bit counts and frame rates of conv, and its data
\* dimensions as frame dimensions and as data dimensions
AtScaleOne(conv) ==
    Converter_new(<<conv.red_bits, conv.green_bits, conv.blue_bits>>,
                  conv.data_fps, conv.video_fps,
                  <<conv.data_width, conv.data_height>>,
                  <<conv.data_width, conv.data_height>>)

\* the bytes deconstruct_file hands to save_data_frame for the frame at an
\* index, filled with zeros to a whole frame
FramePayload(conv, plan, index) ==
    IF /\ index >= PREBUFFER_FRAMES
       /\ index < PREBUFFER_FRAMES + ChunkCount(plan, conv.frame_data_byte_count)
    THEN PaddedTo(Chunk(plan, conv.frame_data_byte_count, index - PREBUFFER_FRAMES),
                  conv.frame_data_byte_count)
    ELSE Zeros(conv.frame_data_byte_count)

---------------------------------------------------------------------------
(* Properties of deconstruct_file *)

\* the number of data frames for a payload of n bytes
DataFrames(conv, n) ==
    div_ceil(HEADER_LEN * 3
                 + HAMMING_CHUNK_BYTES_TOAL_31_26 * div_ceil(n, HAMMING_CHUNK_BYTES_31_26),
             conv.frame_data_byte_count)

\* the header of the payload, then the Hamming code of the payload padded
\* with zeros to whole blocks of 13 bytes
StreamOf(payload) ==
    data_block_header(payload)
        \o encode_with_hamming_31_26(PaddedTo(payload, HAMMING_CHUNK_BYTES_31_26)).val

\* the folder holds the frames 0 .. 3 + D + 3 - 1 and no other; the first
\* three and the last three frames decode to zeros; the D frames between them
\* decode to the stream of the payload and then zeros
StoreLayout ==
    /\ DOMAIN fileStore
           = {frame_path_combine(i) :
                 i \in 0..(PREBUFFER_FRAMES + DataFrames(fileConv, Len(fileSource))
                               + POSTBUFFER_FRAMES - 1)}
    /\ \A name \in DOMAIN fileStore :
           frame_to_data(fileConv, fileStore[name].samples, build)
               = Ok(FramePayload(fileConv, StreamOf(fileSource), name[2]))

\* C19: after deconstruct_file has succeeded on a payload of n bytes the folder
\* holds exactly the frames 0 .. 3 + D + 3 - 1, D = ceil((144 + 16 *
\* ceil(n / 13)) / bytes_per_frame); the frames 0..2 and the last three decode
\* to zeros, the frames 3 .. 3 + D - 1 decode to the header, the Hamming code of
\* the zero-padded payload, and zeros up to D * bytes_per_frame.
C19_StoreLayout == filePc = "deconstructed" => StoreLayout

\* the same for Converters with every bit count within 1..8
StoreLayoutInRange ==
    (/\ filePc = "deconstructed"
     /\ \A i \in 1..COLOR_CHANNELS : ChannelBits(fileConv, i) \in 1..U8_BITS) => StoreLayout

\* with a channel of no bits deconstruct_file never succeeds when overflow is
\* checked
ZeroBitsDeconstructPanics ==
    (/\ \E i \in 1..COLOR_CHANNELS : ChannelBits(fileConv, i) = 0
     /\ build = "debug") => filePc \in {"start", "writing", "failed"}

\* the header at the head of the stream deconstruct_file cuts into frames
WrittenHeader == SubSeq(filePlan, 1, HEADER_LEN * 3)

\* C20: the header deconstruct_file writes is made from the payload as it
\* is read, before the padding and the Hamming code: its length field is the
\* length n of the payload, its hash the hash of the n bytes, its first 8
\* bytes VERSION_CODE, and its three copies of 48 bytes are equal.
C20_HeaderOfRawPayload ==
    filePc \in {"writing", "deconstructed", "combined", "split", "done"} =>
        /\ Len(filePlan) >= HEADER_LEN * 3
        /\ \A c \in 0..2 :
              SubSeq(filePlan, c * HEADER_LEN + 1, (c + 1) * HEADER_LEN)
                  = VERSION_CODE \o u64_to_le_bytes(Len(fileSource)) \o Sha256(fileSource)
        /\ read_data_header(WrittenHeader)
               = Ok([version_code |-> VERSION_CODE,
                     data_len |-> Len(fileSource),
                     sha256_hash |-> Sha256(fileSource)])
        /\ Len(filePlan) = HEADER_LEN * 3
               + HAMMING_CHUNK_BYTES_TOAL_31_26
                     * div_ceil(Len(fileSource), HAMMING_CHUNK_BYTES_31_26)

\* a payload of 14 bytes, padded to 26: the header says 14, and the hash in it
\* is not the hash of the padded payload
C20_Witness ==
    /\ filePc = "deconstructed"
    /\ Len(fileSource) = 14
    /\ read_data_header(WrittenHeader).val.data_len = 14
    /\ read_data_header(WrittenHeader).val.sha256_hash
           # Sha256(PaddedTo(fileSource, HAMMING_CHUNK_BYTES_31_26))

\* the two lengths the claim names: 13 and 64
HeaderLengthThirteen ==
    ~(/\ filePc = "deconstructed" /\ Len(fileSource) = 13
      /\ read_data_header(WrittenHeader).val.data_len = 13)
HeaderLengthSixtyFour ==
    ~(/\ filePc = "deconstructed" /\ Len(fileSource) = 64
      /\ read_data_header(WrittenHeader).val.data_len = 64)

---------------------------------------------------------------------------
(* The lengths the stream codec takes and returns *)

\* the bytes CodecStream handed to decode_with_hamming_31_26, by their number:
\* the code of streamInput, or streamInput itself when the encoder refused it
DecoderInputLen ==
    IF streamEncoded.ok THEN Len(streamEncoded.val) ELSE Len(streamInput)

\* C21: encode_with_hamming_31_26 returns an error and no output for every
\* input whose length is not a multiple of 13 bytes and otherwise exactly
\* (len / 13) * 16 bytes; decode_with_hamming_31_26 returns an error for every
\* input whose length is not a multiple of 16 bytes and otherwise exactly
\* (len / 16) * 13 bytes, with no bits left over in the accumulator.
C21_CodecLengths ==
    StreamRan =>
        /\ IF Len(streamInput) % 13 # 0
           THEN ~streamEncoded.ok /\ ~streamEncoded.panic /\ streamEncoded.val = <<>>
           ELSE /\ streamEncoded.ok
                /\ Len(streamEncoded.val) = (Len(streamInput) \div 13) * 16
        /\ IF DecoderInputLen % 16 # 0
           THEN ~streamDecoded.ok /\ streamDecoded.val = <<>>
           ELSE /\ streamDecoded.ok
                /\ Len(streamDecoded.val) = (DecoderInputLen \div 16) * 13
                /\ streamDecoded.bits_left = 0

\* two blocks went through both directions
C21_Witness ==
    /\ StreamRan
    /\ Len(streamInput) = 26
    /\ Len(streamEncoded.val) = 32
    /\ streamDecoded.ok
    /\ Len(streamDecoded.val) = 26

\* a stream of three whole code words (12 bytes) is refused by both functions
StreamOfThreeWordsRefused ==
    /\ StreamRan
    /\ Len(streamInput) = 12
    /\ ~streamEncoded.ok
    /\ ~streamDecoded.ok

---------------------------------------------------------------------------
(* Properties of reconstruct_file: the report of a round trip without noise *)

\* every channel carries 1 to 8 bits and a frame holds the three header copies
ConverterInRange(conv) ==
    /\ \A i \in 1..3 : ChannelBits(conv, i) \in 1..U8_BITS
    /\ conv.frame_data_byte_count >= HEADER_LEN * 3

\* C22: in a round trip without noise the report has corrected_errors = 0 and
\* uncorrected_errors = 0: the zero padding of the last data frame, the three
\* guard frames behind it and the zero padding up to a multiple of 16 bytes
\* decode as code words without error.  Every call of reconstruct_file that
\* returns Ok returns both counts 0, and for a Converter with bit counts within
\* 1..8 and frames of at least 144 bytes decode_with_hamming_31_26 is given
\* and decodes all these bytes and counts nothing.
C22_NoiseFreeReport ==
    FileDelivered =>
        /\ fileResult.ok =>
              /\ fileResult.val.corrected_errors = 0
              /\ fileResult.val.uncorrected_errors = 0
        /\ ConverterInRange(fileConv) =>
              /\ fileRecovered.decoded_ok
              /\ fileRecovered.decoded_len = RecoveredLen(fileConv, filePlan)
              /\ fileRecovered.report
                     = [corrected_errors |-> 0, uncorrected_errors |-> 0]

\* a round trip whose last data frame is filled up with zeros, whose guard
\* frames are decoded and whose bytes are filled up to whole blocks of 16
C22_Witness ==
    /\ FileDelivered
    /\ fileResult.ok
    /\ fileResult.val.corrected_errors = 0
    /\ fileResult.val.uncorrected_errors = 0
    /\ Len(filePlan) % fileConv.frame_data_byte_count # 0
    /\ Len(fileRecovered.read_from_video)
           > Len(filePlan) - HEADER_LEN * 3
                 + POSTBUFFER_FRAMES * fileConv.frame_data_byte_count
    /\ Len(fileRecovered.read_from_video) % HAMMING_CHUNK_BYTES_TOAL_31_26 # 0

---------------------------------------------------------------------------
(* Properties of reconstruct_file: which frames reach the payload buffer *)

\* the bytes the frames of the store decode to, frame by frame in the order of
\* their names
StoreContents(conv, folder, profile) ==
    LET frames == Glob(folder, "split")
    IN  [k \in 1..Len(frames) |->
            frame_to_data(conv, average_blocks(conv, frames[k]).val, profile).val]

\* the first 144 bytes of a frame's content hold a byte other than 0
NonBlank(content) == \E j \in 1..(HEADER_LEN * 3) : content[j] # 0

RECURSIVE Joined(_, _)
\* the contents from the k-th on, one behind the other
Joined(contents, k) ==
    IF k > Len(contents) THEN <<>> ELSE contents[k] \o Joined(contents, k + 1)

\* the payload buffer the claim describes: nothing of the frames before the
\* first non-blank one, that frame from offset 144 on, every later frame whole
BufferOf(contents) ==
    IF \A k \in 1..Len(contents) : ~NonBlank(contents[k]) THEN <<>>
    ELSE LET first == CHOOSE k \in 1..Len(contents) :
                          /\ NonBlank(contents[k])
                          /\ \A i \in 1..(k - 1) : ~NonBlank(contents[i])
         IN  SubSeq(contents[first], HEADER_LEN * 3 + 1, Len(contents[first]))
                 \o Joined(contents, first + 1)

\* a frame behind the first non-blank one is blank itself
BlankBehindHeader(contents) ==
    \E k, i \in 1..Len(contents) :
        i < k /\ NonBlank(contents[i]) /\ ~NonBlank(contents[k])

SameBuffer(contents) ==
    /\ fileRecovered.read_from_video = BufferOf(contents)
    /\ fileRecovered.found_header_frame
           = (\E k \in 1..Len(contents) : NonBlank(contents[k]))

\* C23: while reconstruct_file scans the frames in order, every frame before
\* the first one whose first 144 decoded bytes hold a non-zero byte adds
\* nothing to the payload buffer, that frame adds its bytes from offset 144 on,
\* and every later frame is appended whole and in order, also when its own
\* first 144 bytes are all zero.  (Frames of at least 144 bytes: with smaller
\* ones the first 144 bytes cannot be taken.)
C23_ScanOrder ==
    (filePc = "done" /\ fileConv.frame_data_byte_count >= HEADER_LEN * 3) =>
        SameBuffer(StoreContents(fileConv, fileStore, build))

WitnessedBuffer(contents) ==
    /\ SameBuffer(contents)
    /\ NonBlank(contents[PREBUFFER_FRAMES + 1])
    /\ \A k \in 1..PREBUFFER_FRAMES : ~NonBlank(contents[k])
    /\ BlankBehindHeader(contents)
    /\ Len(contents[PREBUFFER_FRAMES + 1]) > HEADER_LEN * 3
    /\ Len(contents) > PREBUFFER_FRAMES + 1 + POSTBUFFER_FRAMES

\* three blank frames, the header frame with bytes behind the header, a second
\* data frame and three blank frames behind it, all of them in the buffer
C23_Witness ==
    /\ filePc = "done"
    /\ fileConv.frame_data_byte_count > HEADER_LEN * 3
    /\ WitnessedBuffer(StoreContents(fileConv, fileStore, build))

---------------------------------------------------------------------------
(* Properties of the frame folder *)

\* the numbers of the combine frames in the folder, and whether it holds
\* anything else
CombineIndices == {name[2] : name \in {n \in DOMAIN fileStore : n[1] = "combine"}}
OnlyCombineFrames == \A name \in DOMAIN fileStore : name[1] = "combine"

\* deconstruct_file has cleared the folder and is writing, has returned an
\* error from a write, or has returned Ok
DeconstructWriting ==
    \/ filePc \in {"writing", "deconstructed"}
    \/ filePc = "failed" /\ fileResult.err # "unable_to_read_source"

\* C24: deconstruct_file writes the frames in strictly increasing order of
\* their index, from 0 on: in every state of the operation from the cleared
\* folder on, the state left by a write that failed part-way included, the
\* frames in the folder are the frames 0 .. j-1 for some j; frame i+1 is never
\* there while frame i is missing.  (j is the number of frames saved so far,
\* one more when the failed write left a file, and all of them after Ok.)
C24_FramesArePrefix ==
    DeconstructWriting =>
        /\ OnlyCombineFrames
        /\ \E j \in {fileWritten, fileWritten + 1} :
              /\ CombineIndices = 0..(j - 1)
              /\ j <= FrameTotal(fileConv, filePlan)
              /\ (j = fileWritten + 1) => filePc = "failed"
        /\ (filePc = "deconstructed") => fileWritten = FrameTotal(fileConv, filePlan)

\* a write failed among the data frames and left its file behind
C24_Witness ==
    /\ filePc = "failed"
    /\ fileResult.err = "unable_to_save_frame"
    /\ fileWritten > PREBUFFER_FRAMES
    /\ fileWritten < FrameTotal(fileConv, filePlan) - POSTBUFFER_FRAMES
    /\ CombineIndices = 0..fileWritten

\* a write failed behind the data frames and left nothing behind
WriteFailedInPostBuffer ==
    /\ filePc = "failed"
    /\ fileResult.err = "unable_to_save_frame"
    /\ fileWritten = FrameTotal(fileConv, filePlan) - 1
    /\ CombineIndices = 0..(fileWritten - 1)

\* the folder holds exactly the first `written` frames deconstruct_file makes
\* of this plan (a file left by a failed write aside), and nothing else
FramesOfPlan(store, conv, plan, written, profile) ==
    /\ \A name \in DOMAIN store :
          name[1] = "combine" /\ name[2] \in 0..written
    /\ \A i \in 0..(written - 1) :
          /\ frame_path_combine(i) \in DOMAIN store
          /\ store[frame_path_combine(i)] = FrameAt(conv, plan, i, profile).val

\* the folder holds exactly the frames split_video makes of this video
FramesOfVideo(store, video) ==
    /\ DOMAIN store = {frame_path_split(k) : k \in 1..Len(video)}
    /\ \A k \in 1..Len(video) : store[frame_path_split(k)] = Upscaled(video[k])

\* the most recent operation on the folder is a deconstruct_file that could
\* not read its source
SourceNotRead == filePc = "failed" /\ fileResult.err = "unable_to_read_source"

\* the most recent operation on the folder is a split_video (reconstruct_file
\* may have run since)
SplitLast == filePc \in {"split", "split_failed", "done"}

\* C25 as stated: after any sequence of deconstruct_file and split_video
\* operations the folder holds only frames produced by the most recent of
\* them; no frame of an earlier run survives, and reconstruct_file does not
\* modify the folder.
C25_StoreOfLastOperation ==
    /\ SourceNotRead => fileStore = EmptyFolder
    /\ DeconstructWriting =>
          FramesOfPlan(fileStore, fileConv, filePlan, fileWritten, build)
    /\ filePc = "combined" =>
          FramesOfPlan(fileStore, fileConv, filePlan, fileWritten, build)
    /\ SplitLast =>
          FramesOfVideo(fileStore, IF filePc = "split_failed" THEN <<>> ELSE fileVideo)

\* the same for every operation but a deconstruct_file that cannot read its
\* source: that one leaves the folder as it found it
StoreOfLastOperationThatCleared ==
    /\ DeconstructWriting =>
          FramesOfPlan(fileStore, fileConv, filePlan, fileWritten, build)
    /\ filePc = "combined" =>
          FramesOfPlan(fileStore, fileConv, filePlan, fileWritten, build)
    /\ SplitLast =>
          FramesOfVideo(fileStore, IF filePc = "split_failed" THEN <<>> ELSE fileVideo)

\* reconstruct_file leaves the folder as it is
ReconstructKeepsStore ==
    [][(filePc = "split" /\ filePc' = "done") => fileStore' = fileStore]_vars

\* a deconstruct_file that could not read its source has returned, and the
\* folder holds the split frames of an earlier run
SplitFramesSurvive ==
    /\ SourceNotRead
    /\ fileVideo # <<>>
    /\ FramesOfVideo(fileStore, fileVideo)

\* a shorter payload was deconstructed into a folder that held the frames of a
\* longer one, and only its own frames are there
ShorterAfterLonger ==
    /\ filePc = "deconstructed"
    /\ fileVideo # <<>>
    /\ Len(fileVideo) > FrameTotal(fileConv, filePlan)
    /\ CombineIndices = 0..(FrameTotal(fileConv, filePlan) - 1)

---------------------------------------------------------------------------
(* Properties of read_data_header: one bit flipped in two copies *)

\* bit q of a header of 48 bytes: bit q % 8 of byte q \div 8
HeaderBit(bytes, q) == BitOf(bytes[(q \div 8) + 1], q % 8)

\* the header H that was built, one copy of it
BuiltHeader == SubSeq(data_block_header(hdrData), 1, HEADER_LEN)

\* the header read_data_header returned, as its 48 bytes
ReadHeader ==
    hdrRead.val.version_code \o u64_to_le_bytes(hdrRead.val.data_len)
        \o hdrRead.val.sha256_hash

\* `bytes` are the three copies `clean` with bit q flipped in exactly two of
\* the copies and nothing else changed
FlippedTwice(bytes, clean, q) ==
    /\ Cardinality({c \in 0..2 :
            LET k == c * HEADER_LEN + (q \div 8) + 1
            IN  BitOf(bytes[k], q % 8) # BitOf(clean[k], q % 8)}) = 2
    /\ \A k \in 1..(HEADER_LEN * 3) :
          IF (k - 1) % HEADER_LEN = q \div 8
          THEN \A i \in 0..(U8_BITS - 1) :
                   i # q % 8 => BitOf(bytes[k], i) = BitOf(clean[k], i)
          ELSE bytes[k] = clean[k]

DoubleFlipAt(q) == FlippedTwice(hdrBytes, data_block_header(hdrData), q)

\* the two headers of 48 bytes differ in bit q and in no other
DiffersOnlyAt(read, built, q) ==
    \A p \in 0..(HeaderBits - 1) :
        (HeaderBit(read, p) # HeaderBit(built, p)) <=> (p = q)

\* the lowest bit of the length field that the model cannot hold as a number
LengthBitsBeyond == 64 + 31

DoubleDamageIsDoubleFlip ==
    (HdrRan /\ hdrDamage.kind = "double") => DoubleFlipAt(hdrDamage.a)

---------------------------------------------------------------------------
(* Properties of the pixel codec: where a sample sits in its cell *)

\* the 8-bit values that frame_to_data shifts down to this field
SameField(field, bits, profile) ==
    {v \in 0..255 : ShrU8(v, U8_BITS - bits, profile) = field}

\* the cell of a sample: the values read back as the same field as the sample
Cell(sample, bits, profile) ==
    SameField(ShrU8(sample, U8_BITS - bits, profile), bits, profile)

\* the samples of the frame, each with the bit count of its channel
Samples ==
    {<<pixFrame.val[k], ChannelBits(pixConv, k)>> : k \in 1..Len(pixFrame.val)}

\* as many values of the cell above the sample as below it, and a change by +d
\* stays in the cell exactly when a change by -d does
Centred(cell, sample) ==
    /\ Cardinality({v \in cell : v > sample}) = Cardinality({v \in cell : v < sample})
    /\ \A d \in 1..255 : (sample + d \in cell) <=> (sample - d \in cell)

\* C27 as stated: for every channel of b < 8 bits and every sample that
\* data_to_frame emits, as many 8-bit values above the sample as below it are
\* read back as the same field, so a change by +d is tolerated exactly when a
\* change by -d is.
C27_SampleCentred ==
    (PixRan /\ pixFrame.ok) =>
        \A s \in Samples :
            s[2] < 8 => Centred(Cell(s[1], s[2], build), s[1])

\* the cell is the 2^(8-b) values from 2^(7-b) below the sample to 2^(7-b) - 1
\* above it
UpperMiddle(cell, sample, b) ==
    cell = (sample - Shl(1, 7 - b))..(sample + Shl(1, 7 - b) - 1)

\* C27 amended: for a channel of b bits, 1 <= b <= 7, the sample is the upper
\* of the two middle values of its cell of 2^(8-b) values: the 2^(7-b) values
\* below it and the 2^(7-b) - 1 values above it are read back as the same
\* field and no other value is; a change by -d is tolerated exactly for
\* d <= 2^(7-b), a change by +d exactly for d <= 2^(7-b) - 1.  For a channel
\* of 0 bits (emitted without overflow checks only) frame_to_data shifts by 8
\* masked to 0 and no other value is read back as the sample is.
C27_SampleUpperMiddle ==
    (PixRan /\ pixFrame.ok) =>
        \A s \in Samples :
            /\ s[2] \in 1..7 => UpperMiddle(Cell(s[1], s[2], build), s[1], s[2])
            /\ s[2] = 0 => Cell(s[1], s[2], build) = {s[1]}

\* a channel of 7 bits: the cell has two values and the sample is the upper
\* one; a channel of 1 bit: 64 values below the sample, 63 above
C27_Witness ==
    /\ PixRan /\ pixFrame.ok
    /\ <<pixConv.red_bits, pixConv.green_bits, pixConv.blue_bits>> = <<7, 1, 8>>
    /\ pixFrame.val[1] % 2 = 1
    /\ Cell(pixFrame.val[1], 7, build) = {pixFrame.val[1] - 1, pixFrame.val[1]}
    /\ Cardinality({v \in Cell(pixFrame.val[2], 1, build) : v < pixFrame.val[2]}) = 64
    /\ Cardinality({v \in Cell(pixFrame.val[2], 1, build) : v > pixFrame.val[2]}) = 63

---------------------------------------------------------------------------
(* Properties of Converter::new and reconstruct_file: frames that hold the
   header *)

\* C28: every Converter that Converter::new accepts has frames of at least
\* 144 bytes, so that whenever reconstruct_file takes the first 144 bytes of
\* a decoded frame the frame holds them; smaller frames are refused at
\* construction.
C28_FramesHoldHeader ==
    /\ fileConv.frame_data_byte_count >= HEADER_LEN * 3
    /\ filePc = "done" => fileResult.err # "slice_out_of_range"

\* what happens instead: with frames of fewer than 144 bytes deconstruct_file
\* succeeds and every call of reconstruct_file panics on the first frame
SmallFramesPanic ==
    (fileConv.frame_data_byte_count < HEADER_LEN * 3) =>
        /\ filePc # "failed"
        /\ filePc = "done" =>
              /\ fileResult = Panic("slice_out_of_range")
              /\ ~fileRecovered.found_header_frame
              /\ fileDest \in {NoFile, File(<<170>>)}

\* reconstruct_file has panicked on a frame of 32 bytes
SmallFramePanicked ==
    /\ filePc = "done"
    /\ fileConv.frame_data_byte_count = 32
    /\ fileResult = Panic("slice_out_of_range")

====
